---- MODULE Spec2Model ----
(***************************************************************************)
(* Model of probe-rs' FlashLoader (probe-rs/src/flashing/loader.rs):       *)
(* staging of data chunks against a memory map, and commit (grouping of    *)
(* NVM regions by flash algorithm, erase/program, RAM write, verify).      *)
(*                                                                         *)
(* Addresses are natural numbers well below 2^64, as in every target       *)
(* description, so `address + len` never wraps.                            *)
(***************************************************************************)
EXTENDS Naturals, Integers, Sequences, FiniteSets, TLC

\* ---------------------------------------------------------------- bounds
\* Longest chunk of data handed to one add_data call.
MaxLen == 2
\* Most spans the builder holds.
MaxSpans == 2
\* Most commit calls on one loader.
MaxCommits == 2
\* Most options of a commit call that differ from their default.
MaxFlags == 2

\* Byte value of erased flash, and of RAM overwritten by a loaded flash algorithm.
ErasedByte == 255
AlgoByte == 254
\* Content of target memory before the session.
InitByte == 0
\* Size of one flash sector, the unit of the non-chip erase.
SectorSize == 2

\* ---------------------------------------------------------------- data model
\* MemoryRegion::{Nvm, Ram, Generic} { range: start..end, cores }
Region(kind, start, end, cores) ==
    [kind |-> kind, start |-> start, end |-> end, cores |-> cores]

\* RawFlashAlgorithm: name, default, flash_properties.address_range, and the
\* two capabilities the Flasher derives from it.
Algo(name, default, start, end, erase_all, double_buffering) ==
    [name |-> name, default |-> default, start |-> start, end |-> end,
     erase_all |-> erase_all, double_buffering |-> double_buffering]

\* Range<u64>::contains
Contains(r, address) == r.start <= address /\ address < r.end

\* MemoryRange::contains_range for Range<u64>
ContainsRange(outer, inner) == outer.start <= inner.start /\ inner.end <= outer.end

\* The bytes of a chunk of n bytes: byte i of the chunk has value i.
Payload(n) == [i \in 1 .. n |-> i]

No == [kind |-> "None"]
Some(value) == [kind |-> "Some", value |-> value]
Ok == [kind |-> "Ok"]

NoSuitableNvm(start, end) == [kind |-> "NoSuitableNvm", start |-> start, end |-> end]
DataOverlaps == [kind |-> "DataOverlaps"]
NoLoadableSegments == [kind |-> "NoLoadableSegments"]

\* ---------------------------------------------------------------- targets
\* The loaders and targets of the model: a loader's memory map, and the target
\* of the session it commits to. Regions live in three address windows: at 0,
\* at 16 (Intel-HEX segment 1) and at 65536 (Intel-HEX linear base 1).
Target(map, algorithms) ==
    [memory_map |-> map, flash_algorithms |-> algorithms, cores |-> <<"c0", "c1">>]

Scenario(map, tgt) == [memory_map |-> map, target |-> tgt]

\* One algorithm and one core for two adjacent NVM regions, RAM in segment 1.
MapOneGroup ==
    << Region("Nvm", 0, 2, <<"c0">>), Region("Nvm", 2, 4, <<"c0">>),
       Region("Ram", 16, 18, <<"c0">>) >>
AlgosOneGroup == << Algo("A", TRUE, 0, 4, TRUE, TRUE) >>

\* One algorithm for two NVM regions that list different first cores; a
\* Generic region and an unmapped gap.
MapTwoCores ==
    << Region("Nvm", 0, 2, <<"c0">>), Region("Nvm", 2, 4, <<"c1", "c0">>),
       Region("Generic", 4, 6, <<"c0">>), Region("Ram", 6, 8, <<"c1">>) >>
AlgosTwoCores == << Algo("A", FALSE, 0, 4, TRUE, FALSE) >>

\* Two algorithms, the default one without chip erase; two adjacent RAM
\* regions at linear base 1.
MapTwoAlgos ==
    << Region("Nvm", 0, 2, <<"c0">>), Region("Nvm", 2, 4, <<"c0">>),
       Region("Ram", 65536, 65537, <<"c0">>), Region("Ram", 65537, 65538, <<"c1">>) >>
AlgosTwoAlgos ==
    << Algo("A", TRUE, 0, 2, FALSE, TRUE), Algo("B", FALSE, 0, 4, TRUE, FALSE) >>

\* NVM regions no algorithm can be chosen for: two candidates without a
\* default for the first, no candidate for the second.
MapUnserved ==
    << Region("Nvm", 0, 2, <<"c0">>), Region("Nvm", 2, 4, <<"c0">>),
       Region("Ram", 4, 6, <<"c0">>) >>
AlgosUnserved ==
    << Algo("A", FALSE, 0, 2, TRUE, TRUE), Algo("B", FALSE, 0, 2, TRUE, TRUE) >>

\* The descriptions that keep the data model's invariants: the regions of a
\* map are pairwise disjoint, every region names a core the target declares,
\* and the loader's map is the target's.
Scenarios ==
    { Scenario(MapOneGroup, Target(MapOneGroup, AlgosOneGroup)),
      Scenario(MapTwoCores, Target(MapTwoCores, AlgosTwoCores)),
      Scenario(MapTwoAlgos, Target(MapTwoAlgos, AlgosTwoAlgos)),
      Scenario(MapUnserved, Target(MapUnserved, AlgosUnserved)) }

\* A description with overlapping regions, regions without cores and an
\* ambiguous choice of algorithm.
MapOverlap ==
    << Region("Nvm", 0, 4, <<"c0">>), Region("Generic", 2, 4, <<"c0">>),
       Region("Nvm", 4, 6, <<>>), Region("Ram", 6, 8, <<>>) >>
AlgosOverlap ==
    << Algo("A", FALSE, 0, 4, TRUE, TRUE), Algo("B", FALSE, 0, 6, TRUE, TRUE) >>

\* A loader whose memory map is not the target's.
MapLoaderOnly == << Region("Nvm", 0, 4, <<"c0">>), Region("Ram", 4, 6, <<"c0">>) >>
MapTargetOnly == << Region("Nvm", 0, 2, <<"c0">>), Region("Ram", 4, 6, <<>>) >>

\* A Generic region declared over the start of an NVM region, cores the target
\* does not declare, two default algorithms for one region.
MapUndeclared ==
    << Region("Generic", 0, 1, <<>>), Region("Nvm", 0, 2, <<"cX">>),
       Region("Nvm", 2, 4, <<"c0">>), Region("Ram", 4, 6, <<"cX">>) >>
AlgosUndeclared ==
    << Algo("A", FALSE, 0, 2, TRUE, TRUE), Algo("B", TRUE, 2, 4, TRUE, TRUE),
       Algo("C", TRUE, 2, 4, FALSE, TRUE) >>

\* Nvm regions that list no core: one with a single algorithm, one with none.
MapCoreless ==
    << Region("Nvm", 0, 2, <<>>), Region("Nvm", 2, 4, <<>>),
       Region("Ram", 4, 6, <<"c0">>) >>
AlgosCoreless == << Algo("A", FALSE, 0, 2, TRUE, TRUE) >>

\* Every description of the model, those that break the invariants included.
AnyScenarios ==
    Scenarios \cup
    { Scenario(MapOverlap, Target(MapOverlap, AlgosOverlap)),
      Scenario(MapCoreless, Target(MapCoreless, AlgosCoreless)),
      Scenario(MapLoaderOnly, Target(MapTargetOnly, AlgosOneGroup)),
      Scenario(MapUndeclared, Target(MapUndeclared, AlgosUndeclared)) }

RangeOf(region) == region.start .. (region.end - 1)

\* The addresses of the modelled targets: every address some region covers,
\* and the unmapped address behind each region.
RegionsOf(map) == {map[i] : i \in 1 .. Len(map)}

Addrs ==
    UNION { RangeOf(r) \cup {r.end} :
                r \in UNION {RegionsOf(sc.memory_map) \cup RegionsOf(sc.target.memory_map) :
                                sc \in AnyScenarios} }

\* ---------------------------------------------------------------- state
VARIABLES
    memory_map,     \* FlashLoader.memory_map: sequence of regions
    target,         \* session.target(): memory_map, flash_algorithms, cores
    data,           \* FlashLoader.builder.data: start address -> bytes
    call,           \* the last ingest call: operation, range checked, result
    mem,            \* the target's memory: address -> byte
    pc,             \* position of the running commit: idle, nvm, ram, verify
    options,        \* DownloadOptions of the running (or last) commit
    result,         \* what the last commit returned
    algos,          \* commit's `algos` map: (algorithm name, core name) -> regions
    flasher,        \* the Flasher of the group being programmed, or No
    ram_i,          \* index in memory_map of the next region of the RAM loop
    writes,         \* chunks of the current Ram region still to be written
    verify_left,    \* start addresses of the spans still to be verified
    log,            \* the operations the running (or last) commit issued, in order
    commits,        \* number of commit calls that have returned
    first,          \* what the first commit call was given and left behind
    selection,      \* what get_flash_algorithm_for_region returned, when called alone
    stack,          \* frames of the vendor sequence that runs, the innermost last
    trace,          \* what the sequence did to the probe and the clock, in order
    outcome         \* what the sequence returned

\* ---------------------------------------------------------------- memory map
\* A lookup that returns the last region, in declaration order, whose range
\* contains the address.
get_last_region_for_address(map, address) ==
    LET hits == {i \in 1 .. Len(map) : Contains(map[i], address)}
    IN  IF hits = {} THEN 0 ELSE CHOOSE i \in hits : \A j \in hits : j <= i

\* FlashLoader::get_region_for_address: index of the first region, in
\* declaration order, whose range contains the address; 0 for None.
get_region_for_address(map, address) ==
    LET hits == {i \in 1 .. Len(map) : Contains(map[i], address)}
    IN  IF hits = {} THEN 0 ELSE CHOOSE i \in hits : \A j \in hits : i <= j

\* A walk that steps through a region of any kind, Generic included.
RECURSIVE WalkAnyKind(_, _, _)
WalkAnyKind(map, address, end) ==
    IF ~(address < end) THEN TRUE
    ELSE LET i == get_region_for_address(map, address)
         IN  IF i # 0 THEN WalkAnyKind(map, map[i].end, end) ELSE FALSE

\* A walk that looks up its cursor before it compares it with `end`.
RECURSIVE WalkDoWhile(_, _, _)
WalkDoWhile(map, address, end) ==
    LET i == get_region_for_address(map, address)
    IN  IF i # 0 /\ map[i].kind \in {"Nvm", "Ram"}
        THEN IF map[i].end < end THEN WalkDoWhile(map, map[i].end, end) ELSE TRUE
        ELSE FALSE

\* The loop of check_data_in_memory_map from cursor `address` to `end`:
\* TRUE when the walk reaches `end`, FALSE when it meets an address whose
\* region is Generic or missing.
RECURSIVE WalkCovered(_, _, _)
WalkCovered(map, address, end) ==
    IF ~(address < end) THEN TRUE
    ELSE LET i == get_region_for_address(map, address)
         IN  IF i # 0 /\ map[i].kind \in {"Nvm", "Ram"}
             THEN WalkCovered(map, map[i].end, end)
             ELSE FALSE

\* A check that leaves the last byte of the range out.
CheckAllButLast(map, start, end) ==
    IF WalkCovered(map, start, end - 1) THEN Ok ELSE NoSuitableNvm(start, end)

\* FlashLoader::check_data_in_memory_map(range)
check_data_in_memory_map(map, start, end) ==
    IF WalkCovered(map, start, end) THEN Ok ELSE NoSuitableNvm(start, end)

\* ---------------------------------------------------------------- builder
EmptyData == [a \in {} |-> <<>>]

SpanEnd(d, a) == a + Len(d[a])

\* A builder that looks for an overlap only among the spans that start at or
\* after the chunk's address.
BuilderAddDataRightOnly(d, address, bytes) ==
    IF Len(bytes) = 0 THEN [result |-> Ok, data |-> d]
    ELSE IF \E a \in DOMAIN d : address <= a /\ a < address + Len(bytes)
    THEN [result |-> DataOverlaps, data |-> d]
    ELSE [result |-> Ok,
          data |-> [a \in DOMAIN d \cup {address} |->
                        IF a = address THEN bytes ELSE d[a]]]

\* FlashBuilder::add_data: a zero-length chunk is dropped, a chunk that
\* overlaps a stored span is refused, any other chunk becomes a new span.
BuilderAddData(d, address, bytes) ==
    IF Len(bytes) = 0 THEN [result |-> Ok, data |-> d]
    ELSE IF \E a \in DOMAIN d : a < address + Len(bytes) /\ address < SpanEnd(d, a)
    THEN [result |-> DataOverlaps, data |-> d]
    ELSE [result |-> Ok,
          data |-> [a \in DOMAIN d \cup {address} |->
                        IF a = address THEN bytes ELSE d[a]]]

\* FlashLoader::add_data on builder contents d: the range check, then the
\* builder's add_data.
LoaderAddData(map, d, address, bytes) ==
    LET checked == check_data_in_memory_map(map, address, address + Len(bytes))
    IN  IF checked # Ok THEN [result |-> checked, data |-> d]
        ELSE BuilderAddData(d, address, bytes)

\* ---------------------------------------------------------------- ingest
\* FlashLoader::load_bin_data: the file's bytes from offset `skip` on, staged
\* at options.base_address, or at 0 when there is none (base = No).
load_bin_data(map, d, file, skip, base) ==
    LET buf == SubSeq(file, skip + 1, Len(file))
    IN  LoaderAddData(map, d, IF base = No THEN 0 ELSE base.value, buf)

\* ihex::Record
HexData(offset, value) == [type |-> "Data", offset |-> offset, value |-> value]
HexEndOfFile == [type |-> "EndOfFile"]
HexExtendedSegmentAddress(address) == [type |-> "ExtendedSegmentAddress", address |-> address]
HexStartSegmentAddress == [type |-> "StartSegmentAddress"]
HexExtendedLinearAddress(address) == [type |-> "ExtendedLinearAddress", address |-> address]
HexStartLinearAddress == [type |-> "StartLinearAddress"]

\* A record loop in which an ExtendedLinearAddress record adds to the running
\* base address.
RECURSIVE HexRecordsAccumulating(_, _, _, _)
HexRecordsAccumulating(map, d, base_address, records) ==
    IF records = <<>> THEN [result |-> Ok, data |-> d]
    ELSE LET record == Head(records)
             rest == Tail(records)
         IN  CASE record.type = "Data" ->
                    LET added == LoaderAddData(map, d, base_address + record.offset,
                                               record.value)
                    IN  IF added.result # Ok THEN added
                        ELSE HexRecordsAccumulating(map, added.data, base_address, rest)
               [] record.type = "ExtendedSegmentAddress" ->
                    HexRecordsAccumulating(map, d, record.address * 16, rest)
               [] record.type = "ExtendedLinearAddress" ->
                    HexRecordsAccumulating(map, d, base_address + record.address * 65536, rest)
               [] OTHER -> HexRecordsAccumulating(map, d, base_address, rest)

\* The record loop of FlashLoader::load_hex_data, from running base address
\* `base_address`; the first add_data that fails ends the loop with its error
\* and the chunks staged before it stay staged.
RECURSIVE HexRecords(_, _, _, _)
HexRecords(map, d, base_address, records) ==
    IF records = <<>> THEN [result |-> Ok, data |-> d]
    ELSE LET record == Head(records)
             rest == Tail(records)
         IN  CASE record.type = "Data" ->
                    LET added == LoaderAddData(map, d, base_address + record.offset,
                                               record.value)
                    IN  IF added.result # Ok THEN added
                        ELSE HexRecords(map, added.data, base_address, rest)
               [] record.type = "ExtendedSegmentAddress" ->
                    HexRecords(map, d, record.address * 16, rest)
               [] record.type = "ExtendedLinearAddress" ->
                    HexRecords(map, d, record.address * 65536, rest)
               [] OTHER -> HexRecords(map, d, base_address, rest)

\* FlashLoader::load_hex_data
load_hex_data(map, d, records) == HexRecords(map, d, 0, records)

\* The add_data loop of FlashLoader::load_elf_data over the extracted sections.
RECURSIVE ElfSections(_, _, _)
ElfSections(map, d, sections) ==
    IF sections = <<>> THEN [result |-> Ok, data |-> d]
    ELSE LET added == LoaderAddData(map, d, Head(sections).address, Head(sections).data)
         IN  IF added.result # Ok THEN added
             ELSE ElfSections(map, added.data, Tail(sections))

\* FlashLoader::load_elf_data on the sections extract_from_elf returns.
load_elf_data(map, d, sections) ==
    IF Len(sections) = 0 THEN [result |-> NoLoadableSegments, data |-> d]
    ELSE ElfSections(map, d, sections)

\* ---------------------------------------------------------------- builder queries
\* FlashBuilder::has_data_in_range: some span intersects the range.
has_data_in_range(d, r) ==
    \E a \in DOMAIN d : a < r.end /\ r.start < SpanEnd(d, a)

Max(a, b) == IF a >= b THEN a ELSE b
Min(a, b) == IF a <= b THEN a ELSE b

\* The part of the span stored at address a that lies inside range r.
Clip(d, a, r) ==
    LET from == Max(a, r.start)
        to == Min(SpanEnd(d, a), r.end)
    IN  [address |-> from, bytes |-> SubSeq(d[a], from - a + 1, to - a)]

\* The elements of a finite set of numbers, ascending.
RECURSIVE Ascending(_)
Ascending(S) ==
    IF S = {} THEN <<>>
    ELSE LET least == CHOOSE x \in S : \A y \in S : x <= y
         IN  <<least>> \o Ascending(S \ {least})

\* FlashLoader::data: the builder's spans as (address, bytes) pairs, by
\* ascending address.
LoaderData(d) ==
    LET starts == Ascending(DOMAIN d)
    IN  [k \in 1 .. Len(starts) |-> <<starts[k], d[starts[k]]>>]

\* A range query that yields every span that reaches into the range, whole.
data_intersecting_range(d, r) ==
    LET starts == Ascending({a \in DOMAIN d : a < r.end /\ r.start < SpanEnd(d, a)})
    IN  [k \in 1 .. Len(starts) |-> [address |-> starts[k], bytes |-> d[starts[k]]]]

\* FlashBuilder::data_in_range: the stored data that lies inside the range, as
\* (address, bytes) chunks by ascending address; a span that crosses the
\* range's border contributes the part inside.
data_in_range(d, r) ==
    LET starts == Ascending({a \in DOMAIN d : a < r.end /\ r.start < SpanEnd(d, a)})
    IN  [k \in 1 .. Len(starts) |-> Clip(d, starts[k], r)]

\* ---------------------------------------------------------------- algorithm selection
NoFlashLoaderAlgorithmAttached == [kind |-> "NoFlashLoaderAlgorithmAttached"]
MultipleFlashLoaderAlgorithmsNoDefault(region) ==
    [kind |-> "MultipleFlashLoaderAlgorithmsNoDefault", region |-> region]
MultipleDefaultFlashLoaderAlgorithms(region) ==
    [kind |-> "MultipleDefaultFlashLoaderAlgorithms", region |-> region]
NoNvmCoreAccess(region) == [kind |-> "NoNvmCoreAccess", region |-> region]
NoRamCoreAccess(region) == [kind |-> "NoRamCoreAccess", region |-> region]
Selected(algo) == [kind |-> "Algo", algo |-> algo]

\* A filter that takes an algorithm whose range merely intersects the region's.
IsCandidateIntersecting(fa, region) == fa.start < region.end /\ region.start < fa.end

\* The filter of get_flash_algorithm_for_region: whether algorithm fa is a
\* candidate for the region.
IsCandidate(fa, region) == ContainsRange(fa, region)

\* A selection that takes the last candidate, whatever the default flags.
SelectLastCandidate(region, tgt) ==
    LET algorithms == SelectSeq(tgt.flash_algorithms, LAMBDA fa : IsCandidate(fa, region))
    IN  IF Len(algorithms) = 0 THEN NoFlashLoaderAlgorithmAttached
        ELSE Selected(algorithms[Len(algorithms)])

\* FlashLoader::get_flash_algorithm_for_region
get_flash_algorithm_for_region(region, tgt) ==
    LET algorithms == SelectSeq(tgt.flash_algorithms, LAMBDA fa : IsCandidate(fa, region))
        defaults == SelectSeq(algorithms, LAMBDA fa : fa.default)
    IN  CASE Len(algorithms) = 0 -> NoFlashLoaderAlgorithmAttached
          [] Len(algorithms) = 1 -> Selected(algorithms[1])
          [] OTHER ->
               CASE Len(defaults) = 0 -> MultipleFlashLoaderAlgorithmsNoDefault(region)
                 [] Len(defaults) = 1 -> Selected(defaults[1])
                 [] OTHER -> MultipleDefaultFlashLoaderAlgorithms(region)

\* ---------------------------------------------------------------- grouping
NoGroups == [k \in {} |-> <<>>]

\* A key made of the algorithm's name and the last core the region lists.
GroupKeyLastCore(algo, region) == <<algo.name, region.cores[Len(region.cores)]>>

\* The key under which commit files a region in `algos`: the name of its
\* algorithm and the first core the region lists.
GroupKey(algo, region) == <<algo.name, region.cores[1]>>

\* A grouping loop that resolves the algorithm of every Nvm region, with data
\* or without.
RECURSIVE GroupRegionsAll(_, _, _, _, _)
GroupRegionsAll(map, d, tgt, i, groups) ==
    IF i > Len(map) THEN [result |-> Ok, algos |-> groups]
    ELSE LET region == map[i]
         IN  IF region.kind # "Nvm"
             THEN GroupRegionsAll(map, d, tgt, i + 1, groups)
             ELSE LET sel == get_flash_algorithm_for_region(region, tgt)
                  IN  IF sel.kind # "Algo" THEN [result |-> sel, algos |-> groups]
                      ELSE IF Len(region.cores) = 0
                      THEN [result |-> NoNvmCoreAccess(region), algos |-> groups]
                      ELSE LET key == GroupKey(sel.algo, region)
                               old == IF key \in DOMAIN groups THEN groups[key] ELSE <<>>
                           IN  GroupRegionsAll(map, d, tgt, i + 1,
                                   [k \in DOMAIN groups \cup {key} |->
                                       IF k = key THEN Append(old, region) ELSE groups[k]])

\* A grouping loop that looks at the cores of a region before it resolves the
\* region's algorithm.
RECURSIVE GroupRegionsCoresFirst(_, _, _, _, _)
GroupRegionsCoresFirst(map, d, tgt, i, groups) ==
    IF i > Len(map) THEN [result |-> Ok, algos |-> groups]
    ELSE LET region == map[i]
         IN  IF region.kind # "Nvm" \/ ~has_data_in_range(d, region)
             THEN GroupRegionsCoresFirst(map, d, tgt, i + 1, groups)
             ELSE LET sel == get_flash_algorithm_for_region(region, tgt)
                  IN  IF Len(region.cores) = 0
                      THEN [result |-> NoNvmCoreAccess(region), algos |-> groups]
                      ELSE IF sel.kind # "Algo" THEN [result |-> sel, algos |-> groups]
                      ELSE LET key == GroupKey(sel.algo, region)
                               old == IF key \in DOMAIN groups THEN groups[key] ELSE <<>>
                           IN  GroupRegionsCoresFirst(map, d, tgt, i + 1,
                                   [k \in DOMAIN groups \cup {key} |->
                                       IF k = key THEN Append(old, region) ELSE groups[k]])

\* The grouping loop of commit, from region i of the memory map on, with the
\* groups formed so far. A region that is not Nvm or holds no data is skipped;
\* the algorithm is resolved before the region's cores are looked at.
RECURSIVE GroupRegions(_, _, _, _, _)
GroupRegions(map, d, tgt, i, groups) ==
    IF i > Len(map) THEN [result |-> Ok, algos |-> groups]
    ELSE LET region == map[i]
         IN  IF region.kind # "Nvm" \/ ~has_data_in_range(d, region)
             THEN GroupRegions(map, d, tgt, i + 1, groups)
             ELSE LET sel == get_flash_algorithm_for_region(region, tgt)
                  IN  IF sel.kind # "Algo" THEN [result |-> sel, algos |-> groups]
                      ELSE IF Len(region.cores) = 0
                      THEN [result |-> NoNvmCoreAccess(region), algos |-> groups]
                      ELSE LET key == GroupKey(sel.algo, region)
                               old == IF key \in DOMAIN groups THEN groups[key] ELSE <<>>
                           IN  GroupRegions(map, d, tgt, i + 1,
                                   [k \in DOMAIN groups \cup {key} |->
                                       IF k = key THEN Append(old, region) ELSE groups[k]])

\* Target::flash_algorithm_by_name: the first algorithm of that name.
flash_algorithm_by_name(tgt, name) ==
    LET hits == {i \in 1 .. Len(tgt.flash_algorithms) : tgt.flash_algorithms[i].name = name}
    IN  tgt.flash_algorithms[CHOOSE i \in hits : \A j \in hits : i <= j]

\* cores.iter().position(|c| c.name == core_name) and Target::core_index_by_name:
\* index of the first core of that name, 0 when the target declares none.
core_index_by_name(tgt, core_name) ==
    LET hits == {i \in 1 .. Len(tgt.cores) : tgt.cores[i] = core_name}
    IN  IF hits = {} THEN 0 ELSE CHOOSE i \in hits : \A j \in hits : i <= j

\* Target::get_memory_region_by_address: index of the first region of the
\* target's memory map that contains the address, 0 for None.
get_memory_region_by_address(tgt, address) ==
    get_region_for_address(tgt.memory_map, address)

\* ---------------------------------------------------------------- target memory
Covered(d, address) == \E a \in DOMAIN d : a <= address /\ address < SpanEnd(d, a)

ByteAt(d, address) ==
    LET a == CHOOSE s \in DOMAIN d : s <= address /\ address < SpanEnd(d, s)
    IN  d[a][address - a + 1]

\* Flasher::new loads the flash algorithm into the target's RAM, which
\* overwrites what the RAM held.
FlasherLoad(m, tgt) ==
    [a \in Addrs |->
        IF \E i \in 1 .. Len(tgt.memory_map) :
              tgt.memory_map[i].kind = "Ram" /\ Contains(tgt.memory_map[i], a)
        THEN AlgoByte ELSE m[a]]

\* Flasher::run_erase_all: a chip erase with an algorithm erases every NVM
\* region the algorithm controls.
EraseAll(m, tgt, algo) ==
    [a \in Addrs |->
        IF \E i \in 1 .. Len(tgt.memory_map) :
              /\ tgt.memory_map[i].kind = "Nvm"
              /\ Contains(tgt.memory_map[i], a)
              /\ get_flash_algorithm_for_region(tgt.memory_map[i], tgt) = Selected(algo)
        THEN ErasedByte ELSE m[a]]

\* The sector of a region an address belongs to.
Sector(region, address) == (address - region.start) \div SectorSize

\* Flasher::program(region, builder, keep_unwritten_bytes, _, skip_erase): the
\* builder's bytes inside the region are written; unless skip_erase, every
\* sector of the region that receives a byte is erased first, its other bytes
\* restored afterwards when keep_unwritten_bytes.
ProgramRegion(m, region, d, keep_unwritten_bytes, skip_erase) ==
    LET written == {a \in Addrs : Contains(region, a) /\ Covered(d, a)}
        erased == {a \in Addrs : /\ Contains(region, a)
                                 /\ \E w \in written : Sector(region, w) = Sector(region, a)}
    IN  [a \in Addrs |->
            IF a \in written THEN ByteAt(d, a)
            ELSE IF a \in erased /\ ~skip_erase /\ ~keep_unwritten_bytes THEN ErasedByte
            ELSE m[a]]

\* core.write_8(address, bytes)
Write8(m, address, bytes) ==
    [a \in Addrs |->
        IF address <= a /\ a < address + Len(bytes) THEN bytes[a - address + 1] ELSE m[a]]

\* core.read(address, buffer of n bytes)
ReadBack(m, address, n) == [i \in 1 .. n |-> m[address + i - 1]]

\* ---------------------------------------------------------------- inputs
\* DownloadOptions; progress tells whether a progress sink is given. Every
\* option defaults to FALSE, and at most MaxFlags of them are set.
OptionNames ==
    {"dry_run", "do_chip_erase", "keep_unwritten_bytes", "disable_double_buffering",
     "skip_erase", "verify", "progress"}

OptionSets == {o \in [OptionNames -> BOOLEAN] : Cardinality({f \in OptionNames : o[f]}) <= MaxFlags}

\* Sequences over S of length at most n.
SeqsUpTo(S, n) == UNION {[1 .. k -> S] : k \in 0 .. n}

\* Intel-HEX files, as the records ihex::Reader yields: empty, with one chunk,
\* with a segment or linear base address ahead of the chunk, with a base
\* address that replaces the one before, and with two chunks.
HexFiles ==
    {<<>>,
     <<HexData(0, Payload(1)), HexEndOfFile>>,
     <<HexData(1, Payload(MaxLen)), HexEndOfFile>>,
     <<HexExtendedSegmentAddress(1), HexData(0, Payload(1)), HexEndOfFile>>,
     <<HexExtendedLinearAddress(1), HexData(0, Payload(MaxLen)), HexEndOfFile>>,
     <<HexExtendedLinearAddress(1), HexExtendedSegmentAddress(1), HexData(1, Payload(1))>>,
     <<HexStartSegmentAddress, HexData(0, Payload(1)), HexStartLinearAddress,
       HexData(3, Payload(MaxLen)), HexEndOfFile>>,
     <<HexData(6, Payload(1)), HexData(0, Payload(1))>>}

\* A loadable section extract_from_elf returns.
ElfSection(address, bytes) == [address |-> address, data |-> bytes]

\* ELF files, as the sections extract_from_elf returns: none, one, two.
ElfFiles ==
    {<<>>,
     <<ElfSection(0, Payload(1))>>,
     <<ElfSection(0, Payload(MaxLen)), ElfSection(3, Payload(1))>>,
     <<ElfSection(3, Payload(1)), ElfSection(4, Payload(MaxLen))>>,
     <<ElfSection(16, Payload(MaxLen))>>}

NoCall == [op |-> "none"]
IngestCall(op, address, len, res) ==
    [op |-> op, address |-> address, len |-> len, result |-> res]

Panic == [kind |-> "Panic"]
FlasherError == [kind |-> "Flasher"]
CoreError == [kind |-> "Core"]
Verify == [kind |-> "Verify"]

NoFirst == [kind |-> "None"]

vars == <<memory_map, target, data, call, mem, pc, options, result, algos, flasher,
          ram_i, writes, verify_left, log, commits, first, selection, stack, trace, outcome>>

\* The state of the vendor sequences.
seqVars == <<stack, trace, outcome>>

\* The state of the flash loader.
loaderVars == <<memory_map, target, data, call, mem, pc, options, result, algos, flasher,
                ram_i, writes, verify_left, log, commits, first, selection>>

commitVars == <<pc, options, result, algos, flasher, ram_i, writes, verify_left, log,
                commits, first>>

\* ---------------------------------------------------------------- initial state
\* FlashLoader::new: the loader holds its memory map and an empty builder; the
\* target's memory holds what it held before the session; no commit has been
\* called, and `options` holds DownloadOptions::default().
InitOf(scenarios) ==
    /\ \E sc \in scenarios : memory_map = sc.memory_map /\ target = sc.target
    /\ data = EmptyData
    /\ call = NoCall
    /\ mem = [a \in Addrs |-> InitByte]
    /\ pc = "idle"
    /\ options = [f \in OptionNames |-> FALSE]
    /\ result = No
    /\ algos = NoGroups
    /\ flasher = No
    /\ ram_i = 0
    /\ writes = <<>>
    /\ verify_left = <<>>
    /\ log = <<>>
    /\ commits = 0
    /\ first = NoFirst
    /\ selection = No
    /\ stack = <<>>
    /\ trace = <<>>
    /\ outcome = No

Init == InitOf(Scenarios)

\* As Init, for any description.
InitAny == InitOf(AnyScenarios)

\* ---------------------------------------------------------------- ingest actions
\* An ingest call returns `res`; the builder is read-only once commit has been called.
Ingest(op, address, len, res) ==
    /\ pc = "idle"
    /\ commits = 0
    /\ Cardinality(DOMAIN res.data) <= MaxSpans
    /\ data' = res.data
    /\ call' = IngestCall(op, address, len, res.result)
    /\ UNCHANGED <<seqVars, selection, memory_map, target, mem, commitVars>>

\* add_data of a chunk of n bytes at `address`.
AddDataOf(address, n) ==
    Ingest("add_data", address, n, LoaderAddData(memory_map, data, address, Payload(n)))

\* add_data with a chunk that starts in one of the regions the commit of the
\* model programs or writes.
StageAddrs == {0, 1, 3, 4, 6, 16, 65536}

AddData == \E address \in StageAddrs, n \in 1 .. MaxLen : AddDataOf(address, n)

\* add_data with any chunk at any address, the empty chunk included.
AddDataAny == \E address \in Addrs, n \in 0 .. MaxLen : AddDataOf(address, n)

LoadBinData ==
    \E n \in 0 .. MaxLen, skip \in 0 .. 1, base \in {No, Some(16)} :
        Ingest("load_bin_data", 0, 0, load_bin_data(memory_map, data, Payload(n), skip, base))

LoadHexData ==
    \E records \in HexFiles :
        Ingest("load_hex_data", 0, 0, load_hex_data(memory_map, data, records))

LoadElfData ==
    \E sections \in ElfFiles :
        Ingest("load_elf_data", 0, 0, load_elf_data(memory_map, data, sections))

\* ---------------------------------------------------------------- commit
\* Entries of the log.
Notified(what) == [op |-> what]
Constructed(key, ok) == [op |-> "Flasher::new", group |-> key, ok |-> ok]
ErasedAll(key, ok) == [op |-> "run_erase_all", group |-> key, ok |-> ok]
Programmed(key, region, keep_unwritten_bytes, double_buffering, skip_erase, ok) ==
    [op |-> "program", group |-> key, region |-> region,
     keep_unwritten_bytes |-> keep_unwritten_bytes,
     double_buffering |-> double_buffering, skip_erase |-> skip_erase, ok |-> ok]
Attached(core, ok) == [op |-> "core", core |-> core, ok |-> ok]
Written(address, bytes, ok) == [op |-> "write_8", address |-> address, bytes |-> bytes, ok |-> ok]
ReadOp(address, len, ok) == [op |-> "read", address |-> address, len |-> len, ok |-> ok]

\* An order of phases with RAM ahead of NVM.
PhaseAfterRamFirst(phase) ==
    CASE phase = "grouping" -> "ram"
      [] phase = "ram" -> "nvm"
      [] phase = "nvm" -> "verify"

\* The order of commit's phases: NVM first, RAM after it, verification last.
PhaseAfter(phase) ==
    CASE phase = "grouping" -> "nvm"
      [] phase = "nvm" -> "ram"
      [] phase = "ram" -> "verify"

\* A chip erase performed whenever it is requested.
ChipEraseAsRequested(requested, supported) == requested

\* The chip erase commit performs with a Flasher: the one requested, unless
\* the algorithm does not support it.
EffectiveChipErase(requested, supported) == requested /\ supported

\* The skip_erase argument of Flasher::program.
SkipEraseArg(skip_erase, do_chip_erase) == skip_erase \/ do_chip_erase

\* Double buffering as commit passes it to Flasher::program.
DoubleBuffering(supported, disabled) == supported /\ ~disabled

\* A commit that never takes the dry-run exit.
never_dry_run(o) == FALSE

\* The dry-run check of commit.
dry_run(o) == o.dry_run

\* A comparison that finds no difference.
NeverDiffers(expected, written_data) == FALSE

\* The comparison of verification: whether what was read back differs from the span.
Differs(expected, written_data) == expected # written_data

\* The notifications of a dry run.
DryRunNotifications(progress) ==
    IF progress
    THEN <<Notified("failed_filling"), Notified("failed_erasing"),
           Notified("failed_programming")>>
    ELSE <<>>

\* commit returns r, having issued newlog and left the target's memory as newmem.
Return(r, newlog, newmem) ==
    /\ pc' = "idle"
    /\ result' = r
    /\ log' = newlog
    /\ mem' = newmem
    /\ commits' = commits + 1
    /\ first' = IF commits = 0
                THEN [options |-> options', result |-> r, mem |-> newmem]
                ELSE first
    /\ algos' = NoGroups
    /\ flasher' = No
    /\ ram_i' = 0
    /\ writes' = <<>>
    /\ verify_left' = <<>>

\* commit moves on to the phase after `phase`.
Enter(phase) ==
    /\ pc' = PhaseAfter(phase)
    /\ ram_i' = 1
    /\ writes' = <<>>
    /\ verify_left' = IF PhaseAfter(phase) = "verify" /\ options'.verify
                      THEN Ascending(DOMAIN data) ELSE <<>>

\* A commit that looks at dry_run before it groups the regions.
CommitBeginDryRunFirst ==
    \E o \in OptionSets :
        /\ pc = "idle"
        /\ commits < MaxCommits
        /\ commits > 0 => o = options /\ result = Ok
        /\ options' = o
        /\ call' = NoCall
        /\ UNCHANGED <<seqVars, selection, memory_map, target, data>>
        /\ LET grouped == GroupRegions(memory_map, data, target, 1, NoGroups)
           IN  IF dry_run(o) THEN Return(Ok, DryRunNotifications(o.progress), mem)
               ELSE IF grouped.result # Ok THEN Return(grouped.result, <<>>, mem)
               ELSE /\ Enter("grouping")
                    /\ algos' = grouped.algos
                    /\ result' = No
                    /\ log' = <<>>
                    /\ flasher' = No
                    /\ UNCHANGED <<mem, commits, first>>

\* commit, up to the dry-run check: the grouping of the NVM regions. A loader
\* is committed again only with the options of the call before, and after that
\* call succeeded.
CommitBegin ==
    \E o \in OptionSets :
        /\ pc = "idle"
        /\ commits < MaxCommits
        /\ commits > 0 => o = options /\ result = Ok
        /\ options' = o
        /\ call' = NoCall
        /\ UNCHANGED <<seqVars, selection, memory_map, target, data>>
        /\ LET grouped == GroupRegions(memory_map, data, target, 1, NoGroups)
           IN  IF grouped.result # Ok THEN Return(grouped.result, <<>>, mem)
               ELSE IF dry_run(o) THEN Return(Ok, DryRunNotifications(o.progress), mem)
               ELSE /\ Enter("grouping")
                    /\ algos' = grouped.algos
                    /\ result' = No
                    /\ log' = <<>>
                    /\ flasher' = No
                    /\ UNCHANGED <<mem, commits, first>>

\* The NVM loop takes the next group out of `algos` (a HashMap: in any order)
\* and constructs its Flasher; construction succeeds or fails (ok).
FlasherNew ==
    \E key \in DOMAIN algos, ok \in BOOLEAN :
        /\ pc = "nvm"
        /\ flasher = No
        /\ UNCHANGED <<seqVars, selection, memory_map, target, data, call, options>>
        /\ LET algo == flash_algorithm_by_name(target, key[1])
               core == core_index_by_name(target, key[2])
           IN  IF core = 0 THEN Return(Panic, log, mem)
               ELSE IF ~ok
               THEN Return(FlasherError, Append(log, Constructed(key, FALSE)), mem)
               ELSE /\ flasher' =
                          [key |-> key, algo |-> algo, core |-> core,
                           do_chip_erase |->
                               EffectiveChipErase(options.do_chip_erase, algo.erase_all),
                           do_use_double_buffering |->
                               DoubleBuffering(algo.double_buffering,
                                               options.disable_double_buffering),
                           erased |-> FALSE,
                           regions |-> algos[key]]
                    /\ algos' = [k \in DOMAIN algos \ {key} |-> algos[k]]
                    /\ log' = Append(log, Constructed(key, TRUE))
                    /\ mem' = FlasherLoad(mem, target)
                    /\ UNCHANGED <<pc, result, ram_i, writes, verify_left, commits, first>>

\* flasher.run_erase_all(), when chip erase is in effect for the group.
RunEraseAll ==
    \E ok \in BOOLEAN :
        /\ pc = "nvm"
        /\ flasher # No
        /\ flasher.do_chip_erase
        /\ ~flasher.erased
        /\ UNCHANGED <<seqVars, selection, memory_map, target, data, call, options>>
        /\ IF ~ok
           THEN Return(FlasherError, Append(log, ErasedAll(flasher.key, FALSE)), mem)
           ELSE /\ flasher' = [flasher EXCEPT !.erased = TRUE]
                /\ log' = Append(log, ErasedAll(flasher.key, TRUE))
                /\ mem' = EraseAll(mem, target, flasher.algo)
                /\ UNCHANGED <<pc, result, algos, ram_i, writes, verify_left, commits, first>>

\* flasher.program(...) for the next region of the group; the Flasher is
\* dropped after the group's last region.
Program ==
    \E ok \in BOOLEAN :
        /\ pc = "nvm"
        /\ flasher # No
        /\ flasher.do_chip_erase => flasher.erased
        /\ UNCHANGED <<seqVars, selection, memory_map, target, data, call, options>>
        /\ LET region == Head(flasher.regions)
               skip_erase == SkipEraseArg(options.skip_erase, flasher.do_chip_erase)
               entry == Programmed(flasher.key, region, options.keep_unwritten_bytes,
                                   flasher.do_use_double_buffering, skip_erase, ok)
           IN  IF ~ok THEN Return(FlasherError, Append(log, entry), mem)
               ELSE /\ flasher' = IF Len(flasher.regions) = 1 THEN No
                                  ELSE [flasher EXCEPT !.regions = Tail(flasher.regions)]
                    /\ log' = Append(log, entry)
                    /\ mem' = ProgramRegion(mem, region, data,
                                            options.keep_unwritten_bytes, skip_erase)
                    /\ UNCHANGED <<pc, result, algos, ram_i, writes, verify_left, commits,
                                   first>>

\* Every group has been programmed.
NvmDone ==
    /\ pc = "nvm"
    /\ flasher = No
    /\ DOMAIN algos = {}
    /\ UNCHANGED <<seqVars, selection, memory_map, target, data, call, mem, options, result, algos, flasher,
                   log, commits, first>>
    /\ Enter("nvm")

\* Indexes of the Ram regions the RAM loop has not reached yet.
RamLeft == {i \in ram_i .. Len(memory_map) : memory_map[i].kind = "Ram"}

\* The RAM loop reaches its next Ram region: the core of the region is looked
\* up and attached (ok or not), and the region's data is about to be written.
RamRegion ==
    \E ok \in BOOLEAN :
        /\ pc = "ram"
        /\ writes = <<>>
        /\ RamLeft # {}
        /\ UNCHANGED <<seqVars, selection, memory_map, target, data, call, options>>
        /\ LET i == CHOOSE x \in RamLeft : \A y \in RamLeft : x <= y
               region == memory_map[i]
               core == core_index_by_name(target, region.cores[1])
           IN  IF Len(region.cores) = 0 THEN Return(NoRamCoreAccess(region), log, mem)
               ELSE IF core = 0 THEN Return(Panic, log, mem)
               ELSE IF ~ok THEN Return(CoreError, Append(log, Attached(core, FALSE)), mem)
               ELSE /\ ram_i' = i + 1
                    /\ writes' = data_in_range(data, region)
                    /\ log' = Append(log, Attached(core, TRUE))
                    /\ UNCHANGED <<mem, pc, result, algos, flasher, verify_left, commits,
                                   first>>

\* A RAM loop that goes on with the next chunk after a failed core.write_8.
RamWriteCarryingOn ==
    \E ok \in BOOLEAN :
        /\ pc = "ram"
        /\ writes # <<>>
        /\ UNCHANGED <<seqVars, selection, memory_map, target, data, call, options>>
        /\ LET chunk == Head(writes)
           IN  /\ writes' = Tail(writes)
               /\ log' = Append(log, Written(chunk.address, chunk.bytes, ok))
               /\ mem' = IF ok THEN Write8(mem, chunk.address, chunk.bytes) ELSE mem
               /\ UNCHANGED <<pc, result, algos, flasher, ram_i, verify_left, commits,
                              first>>

\* core.write_8 of the next chunk of the current Ram region.
RamWrite ==
    \E ok \in BOOLEAN :
        /\ pc = "ram"
        /\ writes # <<>>
        /\ UNCHANGED <<seqVars, selection, memory_map, target, data, call, options>>
        /\ LET chunk == Head(writes)
               entry == Written(chunk.address, chunk.bytes, ok)
           IN  IF ~ok THEN Return(CoreError, Append(log, entry), mem)
               ELSE /\ writes' = Tail(writes)
                    /\ log' = Append(log, entry)
                    /\ mem' = Write8(mem, chunk.address, chunk.bytes)
                    /\ UNCHANGED <<pc, result, algos, flasher, ram_i, verify_left, commits,
                                   first>>

\* Every Ram region has been written.
RamDone ==
    /\ pc = "ram"
    /\ writes = <<>>
    /\ RamLeft = {}
    /\ UNCHANGED <<seqVars, selection, memory_map, target, data, call, mem, options, result, algos, flasher,
                   log, commits, first>>
    /\ Enter("ram")

\* Verification of the next span: its region in the target's map and that
\* region's first core are looked up, the core is attached, the span's length
\* is read back from its address and compared with the span.
VerifySpan ==
    \E attach_ok \in BOOLEAN, read_ok \in BOOLEAN :
        /\ pc = "verify"
        /\ verify_left # <<>>
        /\ UNCHANGED <<seqVars, selection, memory_map, target, data, call, options>>
        /\ LET address == Head(verify_left)
               r == get_memory_region_by_address(target, address)
               cores == target.memory_map[r].cores
               core == core_index_by_name(target, cores[1])
               written_data == ReadBack(mem, address, Len(data[address]))
               attached == Append(log, Attached(core, attach_ok))
               entry == ReadOp(address, Len(data[address]), read_ok)
           IN  IF r = 0 \/ Len(cores) = 0 \/ core = 0 THEN Return(Panic, log, mem)
               ELSE IF ~attach_ok THEN Return(CoreError, attached, mem)
               ELSE IF ~read_ok THEN Return(CoreError, Append(attached, entry), mem)
               ELSE IF Differs(data[address], written_data)
               THEN Return(Verify, Append(attached, entry), mem)
               ELSE /\ verify_left' = Tail(verify_left)
                    /\ log' = Append(attached, entry)
                    /\ UNCHANGED <<mem, pc, result, algos, flasher, ram_i, writes, commits,
                                   first>>

\* commit returns Ok.
CommitReturn ==
    /\ pc = "verify"
    /\ verify_left = <<>>
    /\ UNCHANGED <<seqVars, selection, memory_map, target, data, call, options>>
    /\ Return(Ok, log, mem)

\* ---------------------------------------------------------------- specification
\* A loader's life: chunks are staged, then commit is called.
Next ==
    \/ AddData
    \/ CommitBegin
    \/ FlasherNew
    \/ RunEraseAll
    \/ Program
    \/ NvmDone
    \/ RamRegion
    \/ RamWrite
    \/ RamDone
    \/ VerifySpan
    \/ CommitReturn

Spec == Init /\ [][Next]_vars

\* The ingest paths alone, with every input of the model.
NextIngest ==
    \/ AddDataAny
    \/ LoadBinData
    \/ LoadHexData
    \/ LoadElfData

SpecIngest == Init /\ [][NextIngest]_vars

\* The loader's life and the ingest paths on any description.
SpecAny == InitAny /\ [][Next]_vars

SpecIngestAny == InitAny /\ [][NextIngest]_vars

\* ---------------------------------------------------------------- selection alone
\* get_flash_algorithm_for_region applied to a region of the memory map.
SelectAlgorithm ==
    \E i \in 1 .. Len(memory_map) :
        /\ selection' = [region |-> memory_map[i],
                         outcome |-> get_flash_algorithm_for_region(memory_map[i], target)]
        /\ UNCHANGED <<seqVars, memory_map, target, data, call, mem, commitVars>>

\* The longest list of algorithms a target of SelectScenarios declares.
MaxAlgos == 3

AlgoNames == <<"A", "B", "C", "D", "E">>

\* Address ranges and default flags of the algorithms of SelectScenarios.
AlgoShapes ==
    {[start |-> r[1], end |-> r[2], default |-> d] :
        r \in {<<0, 2>>, <<0, 4>>, <<2, 4>>, <<1, 3>>}, d \in BOOLEAN}

\* One Nvm region and every list of at most MaxAlgos algorithms over AlgoShapes.
SelectScenarios ==
    {Scenario(<<Region("Nvm", r[1], r[2], <<"c0">>)>>,
              Target(<<Region("Nvm", r[1], r[2], <<"c0">>)>>,
                     [i \in DOMAIN f |->
                         Algo(AlgoNames[i], f[i].default, f[i].start, f[i].end, TRUE, TRUE)])) :
        r \in {<<0, 2>>, <<2, 4>>, <<0, 4>>}, f \in SeqsUpTo(AlgoShapes, MaxAlgos)}

InitSelect == InitOf(SelectScenarios)

NextSelect == SelectAlgorithm

SpecSelect == InitSelect /\ [][NextSelect]_vars

\* ---------------------------------------------------------------- properties
\* Indexes of the target's algorithms whose address range fully contains the
\* region's range.
CandidatesOf(region, tgt) ==
    {i \in 1 .. Len(tgt.flash_algorithms) :
        /\ tgt.flash_algorithms[i].start <= region.start
        /\ region.end <= tgt.flash_algorithms[i].end}

DefaultsOf(region, tgt) == {i \in CandidatesOf(region, tgt) : tgt.flash_algorithms[i].default}

\* C7: get_flash_algorithm_for_region considers exactly the algorithms whose
\* range fully contains the region's range and returns
\* NoFlashLoaderAlgorithmAttached for no candidate, the candidate when there is
\* exactly one (whatever its default flag), and for two or more the only default
\* one, MultipleFlashLoaderAlgorithmsNoDefault when none is default,
\* MultipleDefaultFlashLoaderAlgorithms when two or more are.
C7_SelectionByContainmentAndDefault ==
    selection # No =>
        LET region == selection.region
            c == CandidatesOf(region, target)
            d == DefaultsOf(region, target)
            only(S) == target.flash_algorithms[CHOOSE i \in S : TRUE]
        IN  /\ Cardinality(c) = 0 => selection.outcome = NoFlashLoaderAlgorithmAttached
            /\ Cardinality(c) = 1 => selection.outcome = Selected(only(c))
            /\ Cardinality(c) >= 2 /\ Cardinality(d) = 1 =>
                   selection.outcome = Selected(only(d))
            /\ Cardinality(c) >= 2 /\ Cardinality(d) = 0 =>
                   selection.outcome = MultipleFlashLoaderAlgorithmsNoDefault(region)
            /\ Cardinality(c) >= 2 /\ Cardinality(d) >= 2 =>
                   selection.outcome = MultipleDefaultFlashLoaderAlgorithms(region)

\* Three algorithms, one of which only overlaps the region; of the two
\* candidates the second is the default one and is selected.
C7_Witness ==
    /\ selection # No
    /\ Len(target.flash_algorithms) = 3
    /\ CandidatesOf(selection.region, target) = {1, 3}
    /\ DefaultsOf(selection.region, target) = {3}
    /\ selection.outcome = Selected(target.flash_algorithms[3])
    /\ target.flash_algorithms[2].start < selection.region.end
    /\ selection.region.start < target.flash_algorithms[2].end

\* The address lies in an Nvm or Ram region of the map.
Suitable(map, address) ==
    \E i \in 1 .. Len(map) : map[i].kind \in {"Nvm", "Ram"} /\ Contains(map[i], address)

\* The addresses of the range the last add_data call was given.
CallRange == call.address .. (call.address + call.len - 1)

\* C1: after any sequence of ingest operations every byte address of every
\* span the builder holds lies inside an Nvm or Ram region of the loader's
\* memory map, and an add_data whose range contains an address that is unmapped
\* or in a Generic region was rejected with NoSuitableNvm carrying the range's
\* start and end.
C1_StagedBytesInNvmOrRam ==
    /\ \A a \in DOMAIN data : \A x \in a .. (SpanEnd(data, a) - 1) : Suitable(memory_map, x)
    /\ (call.op = "add_data" /\ \E x \in CallRange : ~Suitable(memory_map, x)) =>
           call.result = NoSuitableNvm(call.address, call.address + call.len)

\* A loader that holds two spans has refused an add_data whose range starts in
\* an Nvm region and runs into a Generic one.
C1_Witness ==
    /\ Cardinality(DOMAIN data) = 2
    /\ call.op = "add_data"
    /\ call.result = NoSuitableNvm(call.address, call.address + call.len)
    /\ Suitable(memory_map, call.address)
    /\ \E i \in 1 .. Len(memory_map) :
           memory_map[i].kind = "Generic" /\ Contains(memory_map[i], call.address + call.len - 1)

\* The last add_data call was refused only if its range overlaps a span the
\* builder holds, and otherwise its chunk is staged.
StagedUnlessOverlap ==
    \/ /\ call.result = Ok
       /\ call.address \in DOMAIN data
       /\ data[call.address] = Payload(call.len)
    \/ /\ call.result = DataOverlaps
       /\ \E a \in DOMAIN data :
              a < call.address + call.len /\ call.address < SpanEnd(data, a)

\* The Nvm regions the last add_data call's range starts in.
CallRegions ==
    {i \in 1 .. Len(memory_map) :
        memory_map[i].kind = "Nvm" /\ Contains(memory_map[i], call.address)}

\* C10 as stated: add_data of a span that ends with an Nvm region's last byte
\* succeeds, and the span extended by one byte fails with NoSuitableNvm.
C10_OneBytePastFails ==
    call.op = "add_data" /\ call.len >= 1 =>
        \A i \in CallRegions :
            /\ call.address + call.len = memory_map[i].end => StagedUnlessOverlap
            /\ call.address + call.len = memory_map[i].end + 1 =>
                   call.result = NoSuitableNvm(call.address, call.address + call.len)

\* C10: add_data of a span that ends with an Nvm region's last byte succeeds;
\* the span extended by one byte, ending one byte past the region, fails with
\* NoSuitableNvm exactly when the address after the region is unmapped or in a
\* Generic region, and is taken like any other span when an Nvm or Ram region
\* starts there.
C10_OneBytePastFailsUnlessMapped ==
    call.op = "add_data" /\ call.len >= 1 =>
        \A i \in CallRegions :
            /\ call.address + call.len = memory_map[i].end => StagedUnlessOverlap
            /\ call.address + call.len = memory_map[i].end + 1 =>
                   IF Suitable(memory_map, memory_map[i].end)
                   THEN StagedUnlessOverlap
                   ELSE call.result = NoSuitableNvm(call.address, call.address + call.len)

\* A span that starts in an Nvm region and ends one byte past it was staged,
\* the next region being an Nvm region too; the loader holds a span that ends
\* with a region's last byte besides.
C10_Witness ==
    /\ call.op = "add_data"
    /\ call.result = Ok
    /\ \E i \in CallRegions :
           /\ call.address + call.len = memory_map[i].end + 1
           /\ Suitable(memory_map, memory_map[i].end)
    /\ \E a \in DOMAIN data, i \in 1 .. Len(memory_map) :
           /\ memory_map[i].kind = "Nvm"
           /\ Contains(memory_map[i], a)
           /\ SpanEnd(data, a) = memory_map[i].end

\* ---------------------------------------------------------------- properties of commit
\* Positions in the log of the operations named op.
Ops(op) == {i \in 1 .. Len(log) : log[i].op = op}

FlasherOps == {"Flasher::new", "run_erase_all", "program"}

\* A commit call has returned and none is running.
Returned == pc = "idle" /\ commits > 0

\* Indexes of the Nvm regions of the loader's map that hold staged data.
NvmWithData ==
    {i \in 1 .. Len(memory_map) :
        /\ memory_map[i].kind = "Nvm"
        /\ \E a \in DOMAIN data :
               a < memory_map[i].end /\ memory_map[i].start < SpanEnd(data, a)}

SelectionOf(i) == get_flash_algorithm_for_region(memory_map[i], target)

\* The (algorithm name, first core name) group of region i.
GroupOf(i) == <<SelectionOf(i).algo.name, memory_map[i].cores[1]>>

\* The NVM loop of the running or last commit has run to its end.
NvmPhaseOver ==
    \/ pc \in {"ram", "verify"}
    \/ Returned /\ ~options.dry_run /\ result = Ok

\* C2: in every execution of commit every Flasher operation comes before the
\* first RAM write: nothing is constructed, erased or programmed through a
\* Flasher once a core.write_8 has been issued.
C2_NvmBeforeRam ==
    \A i \in Ops("write_8"), j \in 1 .. Len(log) : i < j => log[j].op \notin FlasherOps

\* A commit that programmed an Nvm region and then wrote a RAM chunk has
\* returned success.
C2_Witness ==
    /\ Returned
    /\ result = Ok
    /\ \E i \in Ops("program"), j \in Ops("write_8") : log[i].ok /\ log[j].ok /\ i < j

\* C3: in one commit call a Flasher is constructed only for an (algorithm name,
\* first core name) group that has an Nvm region with staged data, never more
\* than once for the same group, and, once the NVM loop of a commit that
\* programs has run to its end, exactly once for each such group.
C3_OneFlasherPerGroup ==
    /\ \A i \in Ops("Flasher::new") :
           \E r \in NvmWithData : SelectionOf(r).kind = "Algo" /\ GroupOf(r) = log[i].group
    /\ \A i, j \in Ops("Flasher::new") : log[i].group = log[j].group => i = j
    /\ NvmPhaseOver =>
           \A r \in NvmWithData :
               \E i \in Ops("Flasher::new") : log[i].ok /\ log[i].group = GroupOf(r)

\* The NVM loop is over for a loader with data in two Nvm regions of one
\* group: one Flasher was constructed and both regions were programmed.
C3_Witness ==
    /\ pc = "ram"
    /\ Cardinality(NvmWithData) = 2
    /\ Cardinality({GroupOf(r) : r \in NvmWithData}) = 1
    /\ Cardinality(Ops("Flasher::new")) = 1
    /\ Cardinality(Ops("program")) = 2
    /\ \A i \in Ops("program") : log[i].ok

\* C4 as stated: in one commit call run_erase_all is performed at most once per
\* flash algorithm, and no chip erase by an algorithm is issued after a region
\* controlled by that algorithm has been programmed.
C4_ChipEraseOncePerAlgorithm ==
    /\ \A i, j \in Ops("run_erase_all") : log[i].group[1] = log[j].group[1] => i = j
    /\ \A i \in Ops("program"), j \in Ops("run_erase_all") :
           i < j => log[i].group[1] # log[j].group[1]

NotificationOps == {"failed_filling", "failed_erasing", "failed_programming"}

Untouched == [a \in Addrs |-> InitByte]

\* C5 as stated: a commit with dry_run issues nothing but the three progress
\* notifications, leaves the target's memory alone and returns success.
C5_DryRunSucceeds ==
    Returned /\ options.dry_run =>
        /\ \A i \in 1 .. Len(log) : log[i].op \in NotificationOps
        /\ mem = Untouched
        /\ result = Ok

\* Indexes of the Nvm regions with data for which grouping fails: no single
\* algorithm is selected, or the region lists no core.
Ungrouped ==
    {i \in NvmWithData : SelectionOf(i).kind # "Algo" \/ Len(memory_map[i].cores) = 0}

\* The error grouping returns: that of the first region it fails for.
GroupingError ==
    LET i == CHOOSE x \in Ungrouped : \A y \in Ungrouped : x <= y
    IN  IF SelectionOf(i).kind # "Algo" THEN SelectionOf(i)
        ELSE NoNvmCoreAccess(memory_map[i])

\* C5: a commit with dry_run constructs no Flasher, erases and programs
\* nothing, attaches no core, writes no RAM and reads nothing back, and leaves
\* the target's memory alone; when every Nvm region with data is grouped it
\* returns success, having sent the three notifications to the progress sink if
\* there is one, and otherwise it returns the grouping error and notifies nothing.
C5_DryRunTouchesNothing ==
    Returned /\ options.dry_run =>
        /\ \A i \in 1 .. Len(log) : log[i].op \in NotificationOps
        /\ mem = Untouched
        /\ IF Ungrouped = {}
           THEN /\ result = Ok
                /\ log = IF options.progress
                         THEN <<Notified("failed_filling"), Notified("failed_erasing"),
                                Notified("failed_programming")>>
                         ELSE <<>>
           ELSE result = GroupingError /\ log = <<>>

\* A dry run on a loader with data in an Nvm region and in a Ram region has
\* returned success after the three notifications.
C5_Witness ==
    /\ Returned
    /\ options.dry_run
    /\ options.progress
    /\ result = Ok
    /\ Len(log) = 3
    /\ NvmWithData # {}
    /\ \E a \in DOMAIN data : \E i \in 1 .. Len(memory_map) :
           memory_map[i].kind = "Ram" /\ Contains(memory_map[i], a)

\* C6: for each group, chip erase is in effect when it is requested and the
\* group's algorithm supports it. When in effect, run_erase_all is called
\* exactly once for the group, before every program call of the group, and
\* every program call gets skip_erase = TRUE; when not, run_erase_all is not
\* called for the group and every program call gets options.skip_erase.
C6_EffectiveChipErase ==
    LET effective(key) ==
            options.do_chip_erase /\ flash_algorithm_by_name(target, key[1]).erase_all
        erases(key) == {i \in Ops("run_erase_all") : log[i].group = key}
    IN  /\ \A j \in Ops("program") :
               IF effective(log[j].group)
               THEN /\ Cardinality(erases(log[j].group)) = 1
                    /\ \A i \in erases(log[j].group) : i < j /\ log[i].ok
                    /\ log[j].skip_erase
               ELSE /\ erases(log[j].group) = {}
                    /\ log[j].skip_erase = options.skip_erase
        /\ \A i \in Ops("run_erase_all") :
               /\ effective(log[i].group)
               /\ Cardinality(erases(log[i].group)) = 1

\* Chip erase was requested of two groups: the one whose algorithm does not
\* support it was programmed with skip_erase = FALSE and without run_erase_all,
\* the other was erased once and programmed with skip_erase = TRUE.
C6_Witness ==
    /\ options.do_chip_erase
    /\ ~options.skip_erase
    /\ \E j \in Ops("program") :
           /\ ~flash_algorithm_by_name(target, log[j].group[1]).erase_all
           /\ ~log[j].skip_erase
           /\ log[j].ok
    /\ \E i \in Ops("run_erase_all"), j \in Ops("program") :
           /\ log[i].group = log[j].group
           /\ i < j
           /\ log[j].skip_erase
           /\ log[j].ok

\* The span staged at address a is what the target's memory holds there.
Holds(m, a) == \A k \in 1 .. Len(data[a]) : m[a + k - 1] = data[a][k]

\* The reads of the log, in order.
Reads == SelectSeq(log, LAMBDA e : e.op = "read")

\* C8: with verify, commit reads back every staged span, its length from its
\* address, after every Flasher operation and RAM write; it returns Verify
\* when, and only when, the span it has just read back differs from the staged
\* bytes, and it returns success only if the target's memory holds every staged
\* byte. Without verify nothing is read back.
C8_VerifyReadsBackEverySpan ==
    /\ \A i \in Ops("read"), j \in 1 .. Len(log) :
           log[j].op \in FlasherOps \cup {"write_8"} => j < i
    /\ Ops("read") # {} => options.verify
    /\ Returned /\ options.verify /\ ~options.dry_run /\ result = Ok =>
           /\ Reads = [k \in 1 .. Cardinality(DOMAIN data) |->
                          LET a == Ascending(DOMAIN data)[k]
                          IN  ReadOp(a, Len(data[a]), TRUE)]
           /\ \A a \in DOMAIN data : Holds(mem, a)
    /\ Returned /\ result = Verify =>
           LET e == log[Len(log)]
           IN  /\ options.verify
               /\ e.op = "read"
               /\ e.ok
               /\ e.address \in DOMAIN data
               /\ e.len = Len(data[e.address])
               /\ ~Holds(mem, e.address)
    /\ Returned /\ log # <<>> =>
           LET e == log[Len(log)]
           IN  e.op = "read" /\ e.ok /\ ~Holds(mem, e.address) => result = Verify

\* A verifying commit that programmed an Nvm span and wrote a RAM span has
\* read both back and returned success.
C8_Witness ==
    /\ Returned
    /\ options.verify
    /\ result = Ok
    /\ Cardinality(DOMAIN data) = 2
    /\ Len(Reads) = 2
    /\ Ops("program") # {}
    /\ Ops("write_8") # {}

\* A step of commit.
CommitStep == pc # "idle" \/ pc' # "idle" \/ commits' # commits

\* C9 as stated: commit does not modify the loader's builder data or memory
\* map, and two successive commit calls with identical inputs leave the
\* target's memory as one call leaves it.
C9_CommitIsIdempotent ==
    /\ [][CommitStep => data' = data /\ memory_map' = memory_map]_vars
    /\ [](commits = 2 /\ first.result = Ok /\ result = Ok => mem = first.mem)

\* ---------------------------------------------------------------- spans across regions
\* The name of the algorithm that owns the region: its only candidate, or the
\* only default one among several; "" when the region has no owner.
OwnerOf(region) ==
    LET c == CandidatesOf(region, target)
        d == DefaultsOf(region, target)
        name(S) == target.flash_algorithms[CHOOSE i \in S : TRUE].name
    IN  IF Cardinality(c) = 1 THEN name(c)
        ELSE IF Cardinality(c) >= 2 /\ Cardinality(d) = 1 THEN name(d)
        ELSE ""

\* The range from address to end (exclusive) starts in an Nvm region and ends
\* in the Nvm region adjacent to it, and the two are owned by different algorithms.
Crosses(address, end) ==
    \E i, k \in 1 .. Len(memory_map) :
        /\ memory_map[i].kind = "Nvm" /\ memory_map[k].kind = "Nvm"
        /\ memory_map[i].end = memory_map[k].start
        /\ Contains(memory_map[i], address)
        /\ Contains(memory_map[k], end - 1)
        /\ OwnerOf(memory_map[i]) # "" /\ OwnerOf(memory_map[k]) # ""
        /\ OwnerOf(memory_map[i]) # OwnerOf(memory_map[k])

\* Every program call is for an Nvm region with data, under the group of the
\* region's owner, once per region, and the NVM loop leaves no such region out.
ProgramPerOwner ==
    /\ \A j \in Ops("program") :
           \E i \in NvmWithData :
               /\ memory_map[i] = log[j].region
               /\ log[j].group[1] = OwnerOf(memory_map[i])
    /\ \A j, k \in Ops("program") : log[j].region = log[k].region => j = k
    /\ NvmPhaseOver =>
           \A i \in NvmWithData :
               \E j \in Ops("program") : log[j].ok /\ log[j].region = memory_map[i]

\* A program call changes the target's memory inside its region only, and when
\* it succeeds the region holds the staged bytes that fall inside it.
ProgramInsideRegion ==
    Len(log') = Len(log) + 1 /\ log'[Len(log')].op = "program" =>
        LET e == log'[Len(log')]
        IN  \A a \in Addrs :
                /\ ~Contains(e.region, a) => mem'[a] = mem[a]
                /\ e.ok /\ Contains(e.region, a) /\ Covered(data, a) =>
                       mem'[a] = ByteAt(data, a)

\* C11: a span that crosses two adjacent Nvm regions owned by different flash
\* algorithms is accepted by add_data (unless it overlaps a staged span); at
\* commit every region with data is programmed under the group of its own
\* algorithm, each region once, and a program call writes the span's bytes
\* inside its region and changes nothing outside it.
C11_CrossingSpanProgrammedPerAlgorithm ==
    /\ [](call.op = "add_data" /\ call.len >= 1
              /\ Crosses(call.address, call.address + call.len) => StagedUnlessOverlap)
    /\ []ProgramPerOwner
    /\ [][ProgramInsideRegion]_vars

\* The NVM loop is over for a loader whose one span crosses from a region of
\* one algorithm into the adjacent region of another: each region was
\* programmed under its own algorithm and the memory holds the span.
C11_Witness ==
    /\ pc = "ram"
    /\ \E a \in DOMAIN data :
           /\ DOMAIN data = {a}
           /\ Crosses(a, SpanEnd(data, a))
           /\ Holds(mem, a)
    /\ Cardinality(Ops("program")) = 2
    /\ \A j \in Ops("program") : log[j].ok /\ log[j].group[1] = OwnerOf(log[j].region)
    /\ Cardinality({log[j].group[1] : j \in Ops("program")}) = 2

\* ---------------------------------------------------------------- Intel-HEX files alone
\* The longest Intel-HEX file of SpecHex, in records.
MaxRecords == 3

\* The records of the files of SpecHex: chunks (an empty one among them),
\* segment and linear base addresses, and the records load_hex_data passes over.
HexRecordSet ==
    {HexData(0, Payload(1)), HexData(1, Payload(MaxLen)), HexData(1, <<>>),
     HexExtendedSegmentAddress(1), HexExtendedLinearAddress(1), HexExtendedLinearAddress(0),
     HexEndOfFile, HexStartSegmentAddress, HexStartLinearAddress}

\* load_hex_data of a file on a loader that holds nothing yet.
LoadHexFile ==
    \E records \in SeqsUpTo(HexRecordSet, MaxRecords) :
        /\ pc = "idle"
        /\ commits = 0
        /\ call = NoCall
        /\ LET res == load_hex_data(memory_map, data, records)
           IN  /\ data' = res.data
               /\ call' = [op |-> "load_hex_data", records |-> records, result |-> res.result]
        /\ UNCHANGED <<seqVars, selection, memory_map, target, mem, commitVars>>

NextHex == LoadHexFile

SpecHex == Init /\ [][NextHex]_vars

\* The base address in force at record i of the file: what the last
\* ExtendedSegmentAddress or ExtendedLinearAddress record before it gives, 0
\* when there is none.
BaseAt(records, i) ==
    LET S == {j \in 1 .. (i - 1) :
                 records[j].type \in {"ExtendedSegmentAddress", "ExtendedLinearAddress"}}
    IN  IF S = {} THEN 0
        ELSE LET j == CHOOSE x \in S : \A y \in S : y <= x
             IN  IF records[j].type = "ExtendedSegmentAddress"
                 THEN records[j].address * 16
                 ELSE records[j].address * (2 ^ 16)

\* Positions of the Data records of the file that carry bytes.
ChunksOf(records) ==
    {i \in 1 .. Len(records) : records[i].type = "Data" /\ Len(records[i].value) > 0}

\* The span Data record i of the file stands for.
ChunkAt(records, i) == <<BaseAt(records, i) + records[i].offset, records[i].value>>

\* Data record i lies in Nvm or Ram and overlaps no Data record before it.
ChunkFits(records, i) ==
    LET c == ChunkAt(records, i)
    IN  /\ \A x \in c[1] .. (c[1] + Len(c[2]) - 1) : Suitable(memory_map, x)
        /\ \A j \in ChunksOf(records) :
               j < i => LET b == ChunkAt(records, j)
                        IN  ~(b[1] < c[1] + Len(c[2]) /\ c[1] < b[1] + Len(b[2]))

\* C12: load_hex_data stages every Data record that carries bytes at the base
\* address in force (0, or the last ExtendedSegmentAddress * 16 or
\* ExtendedLinearAddress << 16 before the record) plus the record's offset, and
\* passes over every other record; it succeeds exactly when every such chunk
\* lies in Nvm or Ram and overlaps none before it, and data() then yields
\* exactly those (address, bytes) spans by ascending address; when it fails the
\* chunks before the first one that does not fit stay staged.
C12_HexRoundTrip ==
    call.op = "load_hex_data" /\ "records" \in DOMAIN call =>
        LET records == call.records
            chunks == ChunksOf(records)
            misfits == {i \in chunks : ~ChunkFits(records, i)}
            staged == IF misfits = {} THEN chunks
                      ELSE {i \in chunks : \A j \in misfits : i < j}
            spans == LoaderData(data)
        IN  /\ call.result = Ok <=> misfits = {}
            /\ {spans[k] : k \in 1 .. Len(spans)} = {ChunkAt(records, i) : i \in staged}
            /\ Len(spans) = Cardinality(staged)
            /\ \A k \in 1 .. (Len(spans) - 1) : spans[k][1] < spans[k + 1][1]

\* A file of a Data record, an ExtendedLinearAddress record and a Data record
\* under that base address was loaded; data() yields the two spans.
C12_Witness ==
    /\ call.op = "load_hex_data" /\ "records" \in DOMAIN call
    /\ call.result = Ok
    /\ Len(call.records) = 3
    /\ call.records[1].type = "Data"
    /\ call.records[2] = HexExtendedLinearAddress(1)
    /\ call.records[3].type = "Data"
    /\ LoaderData(data) = <<ChunkAt(call.records, 1), ChunkAt(call.records, 3)>>
    /\ ChunkAt(call.records, 3)[1] = 65536 + call.records[3].offset

\* ---------------------------------------------------------------- the builder's spans
\* No two spans of the builder overlap.
NoOverlap ==
    \A a, b \in DOMAIN data :
        a # b => ~(a < SpanEnd(data, b) /\ b < SpanEnd(data, a))

\* The chunk of n bytes at address overlaps a span the builder holds.
OverlapsStaged(address, n) ==
    \E a \in DOMAIN data : a < address + n /\ address < SpanEnd(data, a)

\* An add_data whose chunk overlaps a span the builder holds fails, with
\* DataOverlaps when its range is in Nvm or Ram, and leaves the builder as it was.
OverlappingAddRefused ==
    call'.op = "add_data" /\ call'.len >= 1 /\ OverlapsStaged(call'.address, call'.len) =>
        /\ call'.result # Ok
        /\ (\A x \in call'.address .. (call'.address + call'.len - 1) :
                Suitable(memory_map, x)) => call'.result = DataOverlaps
        /\ data' = data

\* C13: after any sequence of ingest calls no two spans stored in the builder
\* overlap: an add_data whose range overlaps a span accepted before fails and
\* the stored spans are unchanged.
C13_SpansNeverOverlap == []NoOverlap /\ [][OverlappingAddRefused]_vars

\* A loader that holds two spans has refused, with DataOverlaps, a chunk that
\* starts inside one of them.
C13_Witness ==
    /\ Cardinality(DOMAIN data) = 2
    /\ call.op = "add_data"
    /\ call.result = DataOverlaps
    /\ \E a \in DOMAIN data : a < call.address /\ call.address < SpanEnd(data, a)

\* ---------------------------------------------------------------- the empty chunk
\* An add_data of no bytes succeeds wherever its address lies and changes
\* nothing a later data() or commit reads: the builder's spans, the memory
\* map, the target and its memory, and the state of commit.
EmptyAddChangesNothing ==
    call'.op = "add_data" /\ call'.len = 0 =>
        /\ call'.result = Ok
        /\ LoaderData(data') = LoaderData(data)
        /\ data' = data
        /\ UNCHANGED <<memory_map, target, mem, commitVars>>

\* C14: ingesting zero bytes is a no-op: add_data(address, empty) returns
\* success and leaves the spans data() returns, and everything a following
\* commit works on, unchanged.
C14_EmptyIngestIsNoOp == [][EmptyAddChangesNothing]_vars

\* An add_data of no bytes at an address outside Nvm and Ram has returned
\* success on a loader that holds spans.
C14_Witness ==
    /\ call.op = "add_data"
    /\ call.len = 0
    /\ call.result = Ok
    /\ ~Suitable(memory_map, call.address)
    /\ Cardinality(DOMAIN data) = 2

\* ================================================================ vendor sequences
\* The debug sequences of the NXP families: each is a routine of probe
\* accesses, sleeps and deadline polls. A routine is modelled as the
\* instruction at each of its source lines; `stack` holds the frames of the
\* routine that runs and the routines that called it.

\* The most reads one poll loop of the model issues.
MaxPolls == 4

\* A 32-bit word, as the set of the positions of its set bits, from its two
\* 16-bit halves. A typed register (Ctrl, Abort, Demcr, Dhcsr, Aircr) is the
\* set of the names of its set fields.
Word(hi, lo) ==
    {k \in 0 .. 31 : IF k < 16 THEN (lo \div (2 ^ k)) % 2 = 1
                                ELSE (hi \div (2 ^ (k - 16))) % 2 = 1}

\* A shift that leaves the word as it is.
ShrByNone(word, n) == word

\* word >> n
Shr(word, n) == {k - n : k \in {j \in word : j >= n}}

\* What the probe is asked to access: a register of the debug port, of an
\* access port (typed, or raw by offset), a word of the target's memory, the
\* SWJ pins driven to `out`, or the probe itself (flush).
Dp(name) == [space |-> "dp", ap |-> 0, at |-> name]
Ap(ap, name) == [space |-> "ap", ap |-> ap, at |-> name]
RawAp(ap, offset) == [space |-> "raw_ap", ap |-> ap, at |-> offset]
Mem(address) == [space |-> "mem", ap |-> 0, at |-> address]
SwjPins(out) == [space |-> "pins", ap |-> 0, at |-> out]
Probe == [space |-> "probe", ap |-> 0, at |-> ""]

\* Result<_, ArmError>
OkOf(value) == [kind |-> "Ok", value |-> value]
Err(error) == [kind |-> "Err", error |-> error]
Timeout == Err("Timeout")

\* The errors a probe access fails with: AccessPort { RegisterRead },
\* AccessPort { RegisterWrite }, or any other.
ArmErrors == {"AccessPort.RegisterRead", "AccessPort.RegisterWrite", "Other"}

\* Err(ArmError::AccessPort { source: RegisterRead | RegisterWrite, .. }) taken
\* for a register read error alone.
IsApRegisterRead(error) == error = "AccessPort.RegisterRead"

\* Err(ArmError::AccessPort { source: AccessPortError::RegisterRead { .. }
\*                                  | AccessPortError::RegisterWrite { .. }, .. })
IsApRegisterError(error) ==
    error \in {"AccessPort.RegisterRead", "AccessPort.RegisterWrite"}

\* The `?` operator: the error of the access is returned.
Propagate == 0

\* ---------------------------------------------------------------- instructions
\* A probe access. `next` is the line control goes to when it succeeds; when it
\* fails control goes to `err` (to `ap_err` for an AccessPort error), or the
\* routine returns the error (Propagate). `poll` marks the read of a poll loop.
Access(kind, reg, value, local, poll, next, err, ap_err) ==
    [kind |-> kind, reg |-> reg, value |-> value, local |-> local, poll |-> poll,
     next |-> next, err |-> err, ap_err |-> ap_err]

\* interface.write_*(reg, value).ok(): the routine goes on whether or not the write failed.
WriteCarryingOn(reg, value, next) == Access("write", reg, value, "", FALSE, next, next, next)

\* interface.write_*(reg, value)?
Write(reg, value, next) == Access("write", reg, value, "", FALSE, next, Propagate, Propagate)
\* A write meant to be forgiving whose error is returned all the same.
WriteReturning(reg, value, next, failed) ==
    Access("write", reg, value, "", FALSE, next, Propagate, Propagate)

\* interface.write_*(reg, value) whose error is not returned
WriteIgnoring(reg, value, next, failed) ==
    Access("write", reg, value, "", FALSE, next, failed, failed)
\* let local = interface.read_*(reg)?
Read(reg, local, next) == Access("read", reg, {}, local, FALSE, next, Propagate, Propagate)
\* the same, in a poll loop
Poll(reg, local, next) == Access("read", reg, {}, local, TRUE, next, Propagate, Propagate)
\* the read of a poll loop that goes on at `retry` after an AccessPort error
PollTolerant(reg, local, next, retry) ==
    Access("read", reg, {}, local, TRUE, next, Propagate, retry)
\* interface.flush()?
Flush(next) == Access("flush", Probe, {}, "", FALSE, next, Propagate, Propagate)
\* interface.flush() whose error is not returned
FlushIgnoring(next) == Access("flush", Probe, {}, "", FALSE, next, next, next)
\* let local = memory.swj_pins(out, select, 0)?
Pins(out, local, next) ==
    Access("pins", SwjPins(out), {}, local, FALSE, next, Propagate, Propagate)
PollPins(out, local, next) ==
    Access("pins", SwjPins(out), {}, local, TRUE, next, Propagate, Propagate)
\* thread::sleep(us microseconds)
Sleep(us, next) == [kind |-> "sleep", us |-> us, next |-> next]
\* let start = Instant::now()
Now(next) == [kind |-> "now", next |-> next]
\* start.elapsed() < us: on at `within` when it is, at `past` when it is not
Elapsed(us, within, past) == [kind |-> "elapsed", us |-> us, within |-> within, past |-> past]
\* local = value
Set(local, value, next) == [kind |-> "set", local |-> local, value |-> value, next |-> next]
\* control goes to `next`
Goto(next) == [kind |-> "goto", next |-> next]
\* let local = name(args)?
Call(name, args, local, next) ==
    [kind |-> "call", name |-> name, args |-> args, local |-> local, next |-> next]
\* return result
Finish(res) == [kind |-> "return", result |-> res]

NoLocals == [x \in {} |-> {}]

\* ---------------------------------------------------------------- register fields
\* ctrl.csyspwrupack() && ctrl.cdbgpwrupack(), taken for true when either ack is set.
EitherAck(ctrl) == "csyspwrupack" \in ctrl \/ "cdbgpwrupack" \in ctrl

\* ctrl.csyspwrupack() && ctrl.cdbgpwrupack()
BothAcks(ctrl) == "csyspwrupack" \in ctrl /\ "cdbgpwrupack" \in ctrl

\* A port taken for powered down whatever CTRL/STAT shows.
always_powered_down(ctrl) == TRUE

\* let powered_down = !(ctrl.csyspwrupack() && ctrl.cdbgpwrupack())
powered_down(ctrl) == ~("csyspwrupack" \in ctrl /\ "cdbgpwrupack" \in ctrl)

\* A setter that leaves the register as it is.
SetNoField(reg, field, on) == reg

\* reg.set_<field>(on)
SetField(reg, field, on) == IF on THEN reg \cup {field} ELSE reg \ {field}

\* The power-up request of debug_port_start, and the one with the lane mask.
CtrlPowerUp == {"cdbgpwrupreq", "csyspwrupreq"}
CtrlLaneMask == {"cdbgpwrupreq", "csyspwrupreq", "mask_lane=0b1111"}

\* The ABORT value that clears the four sticky errors.
AbortClear == {"orunerrclr", "wderrclr", "stkerrclr", "stkcmpclr"}

\* AIRCR with the vector key and SYSRESETREQ, or VECTRESET.
AircrSysReset == {"vectkey", "sysresetreq"}
AircrVectReset == {"vectkey", "vectreset"}

\* DHCSR with the debug key, C_HALT and C_DEBUGEN.
DhcsrHalt == {"dbgkey", "c_halt", "c_debugen"}

AllOnes == Word(\hFFFF, \hFFFF)

\* A flash word read taken for good whatever the status shows.
FlashReadAlwaysOk(status) == TRUE

\* (status & 0xB) == 0: the flash word was read without error.
FlashReadOk(status) == status \cap Word(0, \hB) = {}

\* csw & 0x40 != 0
csw_debug_status(csw) == csw \cap Word(0, \h40) # {}

\* Pins(0x80): nRESET
n_reset == Word(0, \h80)

\* What a read of a register may return.
ReadValues(reg) ==
    CASE reg = Dp("CTRL/STAT") ->
             {{}, {"csyspwrupack"}, {"csyspwrupack", "cdbgpwrupack"}}
      [] reg = Mem("DEMCR") -> {{"mon_en"}, {"mon_en", "vc_corereset"}}
      [] reg = Mem("DHCSR") -> {{}, {"s_reset_st"}, {"s_halt"}}
      [] reg = Mem("0x40034FE0") -> {Word(0, 0), Word(0, 4), Word(0, 5)}
      [] reg = Mem("0x00000004") -> {AllOnes, Word(\h1000, \h0100)}
      [] reg \in {RawAp(0, "0x0"), RawAp(2, "0x0")} -> {Word(0, 0), Word(0, \h40)}
      [] reg = Ap(0, "DRW") -> {Word(0, 0), Word(0, \h0401)}
      [] reg.space = "pins" -> {AllOnes, Word(0, 0), n_reset}
      [] OTHER -> {Word(0, 0)}

\* ---------------------------------------------------------------- the routines
\* Each routine gives the instruction at line f.pc of nxp.rs for its frame f;
\* f.locals holds the routine's arguments and local variables.

\* fn debug_port_start(interface, dp, select), called with Select(0).
debug_port_start(f) ==
    CASE f.pc = 36 -> Write(Dp("SELECT"), Word(0, 0), 38)
      [] f.pc = 38 -> Read(Dp("CTRL/STAT"), "ctrl", 40)
      [] f.pc = 40 -> Set("powered_down", powered_down(f.locals.ctrl), 42)
      [] f.pc = 42 -> IF f.locals.powered_down THEN Goto(47) ELSE Goto(90)
      [] f.pc = 47 -> Write(Dp("CTRL/STAT"), CtrlPowerUp, 49)
      [] f.pc = 49 -> Now(51)
      [] f.pc = 51 -> Set("timeout", TRUE, 53)
      [] f.pc = 53 -> Elapsed(1000000, 54, 62)
      [] f.pc = 54 -> Poll(Dp("CTRL/STAT"), "ctrl", 56)
      [] f.pc = 56 -> IF BothAcks(f.locals.ctrl) THEN Set("timeout", FALSE, 62) ELSE Goto(53)
      [] f.pc = 62 -> IF f.locals.timeout THEN Finish(Timeout) ELSE Goto(78)
      [] f.pc = 78 -> Write(Dp("CTRL/STAT"), CtrlLaneMask, 87)
      [] f.pc = 87 -> Write(Dp("ABORT"), AbortClear, 90)
      [] f.pc = 90 -> Finish(OkOf(f.locals.powered_down))

\* An LPC55Sxx::debug_port_start that activates the debug mailbox whatever the
\* common routine reported.
LPC55Sxx_debug_port_start_always(f) ==
    CASE f.pc = 111 -> Call("debug_port_start", NoLocals, "powered_down", 113)
      [] f.pc = 113 -> Call("enable_debug_mailbox", NoLocals, "", 117)
      [] f.pc = 117 -> Finish(Ok)

\* LPC55Sxx::debug_port_start
LPC55Sxx_debug_port_start(f) ==
    CASE f.pc = 111 -> Call("debug_port_start", NoLocals, "powered_down", 113)
      [] f.pc = 113 -> IF f.locals.powered_down.value
                       THEN Call("enable_debug_mailbox", NoLocals, "", 117)
                       ELSE Goto(117)
      [] f.pc = 117 -> Finish(Ok)

\* The flash controller registers LPC55Sxx::reset_catch_set clears at lines
\* 134 to 143: STARTA, STOPA, DATAW0 to DATAW7.
FlashWordRegs ==
    <<"0x40034010", "0x40034014", "0x40034080", "0x40034084", "0x40034088",
      "0x4003408C", "0x40034090", "0x40034094", "0x40034098", "0x4003409C">>

\* LPC55Sxx::reset_catch_set
LPC55Sxx_reset_catch_set(f) ==
    CASE f.pc = 126 -> Set("reset_vector", AllOnes, 127)
      [] f.pc = 127 -> Read(Mem("DEMCR"), "demcr", 129)
      [] f.pc = 129 -> Set("demcr", SetField(f.locals.demcr, "vc_corereset", FALSE), 131)
      [] f.pc = 131 -> Write(Mem("DEMCR"), f.locals.demcr, 134)
      [] f.pc \in 134 .. 143 ->
             Write(Mem(FlashWordRegs[f.pc - 133]), Word(0, 0),
                   IF f.pc = 143 THEN 145 ELSE f.pc + 1)
      [] f.pc = 145 -> Write(Mem("0x40034FE8"), Word(0, \hF), 146)
      [] f.pc = 146 -> Write(Mem("0x40034000"), Word(0, 3), 147)
      [] f.pc = 147 -> Flush(149)
      [] f.pc = 149 -> Now(151)
      [] f.pc = 151 -> Set("timeout", TRUE, 153)
      [] f.pc = 153 -> Elapsed(100000, 154, 162)
      [] f.pc = 154 -> Poll(Mem("0x40034FE0"), "value", 156)
      [] f.pc = 156 -> IF f.locals.value \cap Word(0, 4) = Word(0, 4)
                       THEN Set("timeout", FALSE, 162)
                       ELSE Goto(153)
      [] f.pc = 162 -> IF f.locals.timeout THEN Finish(Timeout) ELSE Goto(167)
      [] f.pc = 167 -> Read(Mem("0x40034FE0"), "status", 168)
      [] f.pc = 168 -> IF FlashReadOk(f.locals.status) THEN Goto(170) ELSE Goto(173)
      [] f.pc = 170 -> Read(Mem("0x00000004"), "reset_vector", 173)
      [] f.pc = 173 -> IF f.locals.reset_vector # AllOnes THEN Goto(176) ELSE Goto(180)
      [] f.pc = 176 -> Write(Mem("0xE0002008"), f.locals.reset_vector \cup Word(0, 1), 177)
      [] f.pc = 177 -> Write(Mem("0xE0002000"), Word(0, 3), 180)
      [] f.pc = 180 -> IF f.locals.reset_vector = AllOnes THEN Goto(184) ELSE Goto(191)
      [] f.pc = 184 -> Read(Mem("DEMCR"), "demcr", 186)
      [] f.pc = 186 -> Set("demcr", SetField(f.locals.demcr, "vc_corereset", TRUE), 188)
      [] f.pc = 188 -> Write(Mem("DEMCR"), f.locals.demcr, 191)
      [] f.pc = 191 -> Read(Mem("DHCSR"), "", 195)
      [] f.pc = 195 -> Finish(Ok)

\* A reset_catch_clear that leaves DEMCR as it read it.
LPC55Sxx_reset_catch_clear_keeping_demcr(f) ==
    CASE f.pc = 204 -> Write(Mem("0xE0002008"), Word(0, 0), 205)
      [] f.pc = 205 -> Write(Mem("0xE0002000"), Word(0, 2), 207)
      [] f.pc = 207 -> Read(Mem("DEMCR"), "demcr", 209)
      [] f.pc = 209 -> Goto(211)
      [] f.pc = 211 -> Write(Mem("DEMCR"), f.locals.demcr, 212)
      [] f.pc = 212 -> Finish(Ok)

\* LPC55Sxx::reset_catch_clear
LPC55Sxx_reset_catch_clear(f) ==
    CASE f.pc = 204 -> Write(Mem("0xE0002008"), Word(0, 0), 205)
      [] f.pc = 205 -> Write(Mem("0xE0002000"), Word(0, 2), 207)
      [] f.pc = 207 -> Read(Mem("DEMCR"), "demcr", 209)
      [] f.pc = 209 -> Set("demcr", SetField(f.locals.demcr, "vc_corereset", FALSE), 211)
      [] f.pc = 211 -> Write(Mem("DEMCR"), f.locals.demcr, 212)
      [] f.pc = 212 -> Finish(Ok)

\* LPC55Sxx::reset_system: a failed AIRCR write skips the flush, and the error
\* of the write or of the flush is logged and dropped.
LPC55Sxx_reset_system(f) ==
    CASE f.pc = 224 -> WriteIgnoring(Mem("AIRCR"), AircrSysReset, 227, 235)
      [] f.pc = 227 -> FlushIgnoring(235)
      [] f.pc = 235 -> Sleep(10000, 237)
      [] f.pc = 237 -> Call("wait_for_stop_after_reset", NoLocals, "", 238)
      [] f.pc = 238 -> Finish(Ok)

\* fn wait_for_stop_after_reset(memory)
wait_for_stop_after_reset(f) ==
    CASE f.pc = 244 -> Sleep(10000, 249)
      [] f.pc = 249 -> Call("enable_debug_mailbox", NoLocals, "", 251)
      [] f.pc = 251 -> Set("timeout", TRUE, 253)
      [] f.pc = 253 -> Now(257)
      [] f.pc = 257 -> Elapsed(500000, 258, 266)
      [] f.pc = 258 -> Poll(Mem("DHCSR"), "dhcsr", 260)
      [] f.pc = 260 -> IF "s_reset_st" \notin f.locals.dhcsr
                       THEN Set("timeout", FALSE, 266)
                       ELSE Goto(257)
      [] f.pc = 266 -> IF f.locals.timeout THEN Finish(Timeout) ELSE Goto(270)
      [] f.pc = 270 -> Read(Mem("DHCSR"), "dhcsr", 272)
      [] f.pc = 272 -> IF "s_halt" \notin f.locals.dhcsr THEN Goto(278) ELSE Goto(281)
      [] f.pc = 278 -> Write(Mem("DHCSR"), DhcsrHalt, 281)
      [] f.pc = 281 -> Finish(Ok)

\* fn enable_debug_mailbox(interface, dp)
enable_debug_mailbox(f) ==
    CASE f.pc = 292 -> Read(Ap(2, "IDR"), "", 297)
      [] f.pc = 297 -> Read(Dp("DPIDR"), "", 302)
      [] f.pc = 302 -> Write(RawAp(2, "0x0"), Word(0, \h21), 303)
      [] f.pc = 303 -> Flush(306)
      [] f.pc = 306 -> Sleep(30000, 308)
      [] f.pc = 308 -> Read(RawAp(2, "0x0"), "", 311)
      [] f.pc = 311 -> Write(RawAp(2, "0x4"), Word(0, 7), 312)
      [] f.pc = 312 -> Flush(315)
      [] f.pc = 315 -> Sleep(30000, 317)
      [] f.pc = 317 -> Read(RawAp(2, "0x8"), "", 320)
      [] f.pc = 320 -> Finish(Ok)

\* MIMXRT10xx::reset_system; check_core_type always returns Ok.
MIMXRT10xx_reset_system(f) ==
    CASE f.pc = 366 -> Goto(374)
      [] f.pc = 374 -> WriteIgnoring(Mem("AIRCR"), AircrSysReset, 377, 377)
      [] f.pc = 377 -> FlushIgnoring(380)
      [] f.pc = 380 -> Sleep(100000, 382)
      [] f.pc = 382 -> Now(383)
      [] f.pc = 383 -> Elapsed(500000, 384, 408)
      [] f.pc = 384 -> PollTolerant(Mem("DHCSR"), "dhcsr", 403, 383)
      [] f.pc = 403 -> IF "s_reset_st" \notin f.locals.dhcsr THEN Finish(Ok) ELSE Goto(383)
      [] f.pc = 408 -> Finish(Timeout)

\* MIMXRT11xx::debug_port_start with prepare_cm7_trap_code (431-443),
\* prepare_cm4_trap_code (455-480), release_cm4 (490-491) and
\* change_reset_modes (501-504) in line.
MIMXRT11xx_debug_port_start(f) ==
    CASE f.pc = 519 -> Call("debug_port_start", NoLocals, "", 431)
      [] f.pc = 431 -> Write(Ap(0, "TAR"), Word(\h2001, \hFF00), 432)
      [] f.pc = 432 -> Write(Ap(0, "DRW"), Word(\h2001, \hFF20), 434)
      [] f.pc = 434 -> Write(Ap(0, "TAR"), Word(\h2001, \hFF04), 435)
      [] f.pc = 435 -> Write(Ap(0, "DRW"), Word(\h0002, \h3105), 437)
      [] f.pc = 437 -> Write(Ap(0, "TAR"), Word(\h40C0, \hC068), 443)
      [] f.pc = 443 -> Write(Ap(0, "DRW"), Shr(Word(\h2001, \hFF00), 7), 455)
      [] f.pc = 455 -> Write(Ap(0, "TAR"), Word(\h2025, \h0000), 456)
      [] f.pc = 456 -> Write(Ap(0, "DRW"), Word(\h2025, \h0020), 458)
      [] f.pc = 458 -> Write(Ap(0, "TAR"), Word(\h2025, \h0004), 459)
      [] f.pc = 459 -> Write(Ap(0, "DRW"), Word(\h0023, \hF041), 461)
      [] f.pc = 461 -> Write(Ap(0, "TAR"), Word(\h40C0, \hC000), 467)
      [] f.pc = 467 -> Write(Ap(0, "DRW"), Word(\h2025, \h0000) \cap Word(0, \hFFFF), 474)
      [] f.pc = 474 -> Write(Ap(0, "TAR"), Word(\h40C0, \hC004), 480)
      [] f.pc = 480 -> Write(Ap(0, "DRW"), Shr(Word(\h2025, \h0000), 16), 490)
      [] f.pc = 490 -> Write(Ap(0, "TAR"), Word(\h40C0, \h4000), 491)
      [] f.pc = 491 -> Write(Ap(0, "DRW"), Word(0, 1), 501)
      [] f.pc = 501 -> Write(Ap(0, "TAR"), Word(\h40C0, \h4004), 502)
      [] f.pc = 502 -> Read(Ap(0, "DRW"), "src_sbmr", 503)
      [] f.pc = 503 -> Set("src_sbmr", f.locals.src_sbmr \cup Word(0, \h3C00), 504)
      [] f.pc = 504 -> Write(Ap(0, "DRW"), f.locals.src_sbmr, 535)
      [] f.pc = 535 -> Finish(Ok)

\* MIMXRT11xx::reset_system
MIMXRT11xx_reset_system(f) ==
    CASE f.pc = 552 -> Write(Mem("DHCSR"), DhcsrHalt, 553)
      [] f.pc = 553 -> Sleep(100000, 566)
      [] f.pc = 566 -> WriteIgnoring(Mem("AIRCR"), AircrVectReset, 569, 569)
      [] f.pc = 569 -> FlushIgnoring(571)
      [] f.pc = 571 -> Sleep(100000, 573)
      [] f.pc = 573 -> Read(Mem("DHCSR"), "", 574)
      [] f.pc = 574 -> Finish(Ok)

\* MIMXRT6xx::enable_debug_mailbox(interface, dp, mem_ap); the read of
\* csw_debug_status (591) is at the line that calls it.
MIMXRT6xx_enable_debug_mailbox(f) ==
    CASE f.pc = 619 -> Read(RawAp(f.locals.mem_ap, "0x0"), "csw", 620)
      [] f.pc = 620 -> IF ~csw_debug_status(f.locals.csw) THEN Goto(624) ELSE Goto(646)
      [] f.pc = 624 -> Read(Ap(2, "IDR"), "", 628)
      [] f.pc = 628 -> Read(Dp("DPIDR"), "", 632)
      [] f.pc = 632 -> Write(RawAp(2, "0x0"), Word(0, \h21), 633)
      [] f.pc = 633 -> Flush(634)
      [] f.pc = 634 -> Sleep(30000, 635)
      [] f.pc = 635 -> Read(RawAp(2, "0x0"), "", 638)
      [] f.pc = 638 -> Write(RawAp(2, "0x4"), Word(0, 7), 639)
      [] f.pc = 639 -> Flush(640)
      [] f.pc = 640 -> Sleep(30000, 641)
      [] f.pc = 641 -> Read(RawAp(2, "0x0"), "", 646)
      [] f.pc = 646 -> Finish(Ok)

\* MIMXRT6xx::wait_for_stop_after_reset; memory.ap() is access port 0. The
\* loop reads CSW first and looks at the clock only when DbgStatus is clear.
MIMXRT6xx_wait_for_stop_after_reset(f) ==
    CASE f.pc = 673 -> Now(675)
      [] f.pc = 675 -> Poll(RawAp(0, "0x0"), "csw", 676)
      [] f.pc = 676 -> IF ~csw_debug_status(f.locals.csw)
                       THEN Elapsed(300000, 675, 681)
                       ELSE Goto(681)
      [] f.pc = 681 -> Call("MIMXRT6xx_enable_debug_mailbox", [mem_ap |-> 0], "", 684)
      [] f.pc = 684 -> Write(Mem("DHCSR"), Word(\hA05F, \h0003), 687)
      [] f.pc = 687 -> Write(Mem("0xE0001020"), Word(0, 0), 688)
      [] f.pc = 688 -> Write(Mem("0xE0001028"), Word(0, 0), 690)
      [] f.pc = 690 -> Finish(Ok)

\* MIMXRT6xx::debug_port_start with clear_errors (605) in line.
MIMXRT6xx_debug_port_start(f) ==
    CASE f.pc = 605 -> Write(Dp("ABORT"), AbortClear, 706)
      [] f.pc = 706 -> Call("debug_port_start", NoLocals, "", 711)
      [] f.pc = 711 -> Call("MIMXRT6xx_enable_debug_mailbox", [mem_ap |-> 2], "", 713)
      [] f.pc = 713 -> Finish(Ok)

\* MIMXRT6xx::reset_system with reset_flash (652-660) in line.
MIMXRT6xx_reset_system(f) ==
    CASE f.pc = 726 -> Write(Mem("DHCSR"), Word(\hA05F, \h0003), 729)
      [] f.pc = 729 -> Read(Mem("DEMCR"), "demcr", 731)
      [] f.pc = 731 -> Set("demcr",
                           SetField(SetField(f.locals.demcr, "trcena", TRUE),
                                    "vc_corereset", FALSE), 733)
      [] f.pc = 733 -> Write(Mem("DEMCR"), f.locals.demcr, 652)
      [] f.pc = 652 -> Write(Mem("0x40004130"), Word(0, \h130), 653)
      [] f.pc = 653 -> Write(Mem("0x40021044"), Word(0, 4), 654)
      [] f.pc = 654 -> Write(Mem("0x40020074"), Word(0, 4), 655)
      [] f.pc = 655 -> Write(Mem("0x40102008"), Word(0, \h1000), 656)
      [] f.pc = 656 -> Write(Mem("0x40102288"), Word(0, \h1000), 658)
      [] f.pc = 658 -> Sleep(100000, 660)
      [] f.pc = 660 -> Write(Mem("0x40102208"), Word(0, \h1000), 738)
      [] f.pc = 738 -> Write(Mem("0xE0001020"), Word(\h5000, \h2034), 739)
      [] f.pc = 739 -> Write(Mem("0xE0001028"), Word(0, \h0814), 747)
      [] f.pc = 747 -> Write(Mem("AIRCR"), AircrSysReset, 748)
      [] f.pc = 748 -> Flush(750)
      [] f.pc = 750 -> Call("MIMXRT6xx_wait_for_stop_after_reset", NoLocals, "", 753)
      [] f.pc = 753 -> Finish(Ok)

\* MIMXRT6xx::reset_hardware_deassert. The loop of line 770 goes on while
\* nRESET reads low, and looks at the clock (768) only when it reads high.
MIMXRT6xx_reset_hardware_deassert(f) ==
    CASE f.pc = 760 -> Pins("0x00", "can_read_pins", 762)
      [] f.pc = 762 -> Sleep(50000, 766)
      [] f.pc = 766 -> IF f.locals.can_read_pins # AllOnes THEN Goto(767) ELSE Goto(774)
      [] f.pc = 767 -> Now(770)
      [] f.pc = 770 -> PollPins("0x80", "pins", 771)
      [] f.pc = 771 -> IF f.locals.pins \cap n_reset = {} THEN Goto(770) ELSE Goto(768)
      [] f.pc = 768 -> Elapsed(1000000, 770, 778)
      [] f.pc = 774 -> Pins("0x80", "", 775)
      [] f.pc = 775 -> Sleep(100000, 778)
      [] f.pc = 778 -> Finish(Ok)

\* The routines the model starts: the common debug_port_start and the
\* ArmDebugSequence methods of the four families, with the line each starts at.
EntryLine ==
    [debug_port_start |-> 36,
     LPC55Sxx_debug_port_start |-> 111,
     LPC55Sxx_reset_catch_set |-> 126,
     LPC55Sxx_reset_catch_clear |-> 204,
     LPC55Sxx_reset_system |-> 224,
     wait_for_stop_after_reset |-> 244,
     enable_debug_mailbox |-> 292,
     MIMXRT10xx_reset_system |-> 366,
     MIMXRT11xx_debug_port_start |-> 519,
     MIMXRT11xx_reset_system |-> 552,
     MIMXRT6xx_enable_debug_mailbox |-> 619,
     MIMXRT6xx_wait_for_stop_after_reset |-> 673,
     MIMXRT6xx_debug_port_start |-> 605,
     MIMXRT6xx_reset_system |-> 726,
     MIMXRT6xx_reset_hardware_deassert |-> 760]

EntryPoints ==
    {"debug_port_start", "LPC55Sxx_debug_port_start", "LPC55Sxx_reset_catch_set",
     "LPC55Sxx_reset_catch_clear", "LPC55Sxx_reset_system", "MIMXRT10xx_reset_system",
     "MIMXRT11xx_debug_port_start", "MIMXRT11xx_reset_system",
     "MIMXRT6xx_debug_port_start", "MIMXRT6xx_reset_system",
     "MIMXRT6xx_reset_hardware_deassert"}

\* The instruction frame f is at.
Body(f) ==
    CASE f.name = "debug_port_start" -> debug_port_start(f)
      [] f.name = "LPC55Sxx_debug_port_start" -> LPC55Sxx_debug_port_start(f)
      [] f.name = "LPC55Sxx_reset_catch_set" -> LPC55Sxx_reset_catch_set(f)
      [] f.name = "LPC55Sxx_reset_catch_clear" -> LPC55Sxx_reset_catch_clear(f)
      [] f.name = "LPC55Sxx_reset_system" -> LPC55Sxx_reset_system(f)
      [] f.name = "wait_for_stop_after_reset" -> wait_for_stop_after_reset(f)
      [] f.name = "enable_debug_mailbox" -> enable_debug_mailbox(f)
      [] f.name = "MIMXRT10xx_reset_system" -> MIMXRT10xx_reset_system(f)
      [] f.name = "MIMXRT11xx_debug_port_start" -> MIMXRT11xx_debug_port_start(f)
      [] f.name = "MIMXRT11xx_reset_system" -> MIMXRT11xx_reset_system(f)
      [] f.name = "MIMXRT6xx_enable_debug_mailbox" -> MIMXRT6xx_enable_debug_mailbox(f)
      [] f.name = "MIMXRT6xx_wait_for_stop_after_reset" ->
             MIMXRT6xx_wait_for_stop_after_reset(f)
      [] f.name = "MIMXRT6xx_debug_port_start" -> MIMXRT6xx_debug_port_start(f)
      [] f.name = "MIMXRT6xx_reset_system" -> MIMXRT6xx_reset_system(f)
      [] f.name = "MIMXRT6xx_reset_hardware_deassert" ->
             MIMXRT6xx_reset_hardware_deassert(f)

\* ---------------------------------------------------------------- running a routine
\* A frame: the routine, the line it is at, its arguments and locals, the
\* caller's local its result is bound to, and the clock of its poll loop:
\* `timing` once `start` was taken, `late` once the deadline has passed, the
\* number of reads the loop issued, and how many of them after the deadline.
Frame(name, args, into) ==
    [name |-> name, pc |-> EntryLine[name], locals |-> args, into |-> into,
     timing |-> FALSE, late |-> FALSE, polls |-> 0, overdue |-> 0]

Running == stack # <<>>
Top == stack[Len(stack)]
Instruction == Body(Top)

\* What the probe and the clock saw, in order.
Event(op, reg, value, us, ok, error) ==
    [op |-> op, seq |-> Top.name, line |-> Top.pc, reg |-> reg, value |-> value,
     us |-> us, ok |-> ok, error |-> error]

\* let local = value
Bind(locals, local, value) ==
    IF local = ""
    THEN locals
    ELSE [x \in DOMAIN locals \cup {local} |-> IF x = local THEN value ELSE locals[x]]

\* The stack with its innermost frame replaced.
WithTop(frame) == [stack EXCEPT ![Len(stack)] = frame]

\* The innermost frame after one more read of its poll loop.
Polled(frame, poll) ==
    IF poll
    THEN [frame EXCEPT !.polls = @ + 1, !.overdue = IF frame.late THEN @ + 1 ELSE @]
    ELSE frame

\* A failed access whose error is returned ends every routine on the stack:
\* each call site hands the error on with `?` or is a tail call.
\* A failed access whose error is not returned goes on at `line`.
AfterFailure(line, error, poll) ==
    IF line = Propagate
    THEN stack' = <<>> /\ outcome' = Err(error)
    ELSE /\ stack' = WithTop([Polled(Top, poll) EXCEPT !.pc = line])
         /\ UNCHANGED outcome

\* One access of the probe: it succeeds (a read with any value the register may
\* hold) or fails with an ArmError.
ProbeAccess(kind) ==
    /\ Running
    /\ Instruction.kind = kind
    /\ Instruction.poll => Top.polls < MaxPolls
    /\ \/ \E v \in (IF kind \in {"read", "pins"}
                    THEN ReadValues(Instruction.reg)
                    ELSE {Instruction.value}) :
              /\ trace' = Append(trace, Event(kind, Instruction.reg, v, 0, TRUE, ""))
              /\ stack' = WithTop([Polled(Top, Instruction.poll) EXCEPT
                                       !.pc = Instruction.next,
                                       !.locals = Bind(@, Instruction.local, v)])
              /\ UNCHANGED outcome
       \/ \E e \in ArmErrors :
              /\ trace' = Append(trace,
                                 Event(kind, Instruction.reg, Instruction.value, 0, FALSE, e))
              /\ AfterFailure(IF IsApRegisterError(e) THEN Instruction.ap_err
                                                       ELSE Instruction.err,
                              e, Instruction.poll)
    /\ UNCHANGED loaderVars

\* A sequence is started on a probe that runs none.
StartSequence ==
    /\ ~Running
    /\ outcome = No
    /\ \E name \in EntryPoints : stack' = <<Frame(name, NoLocals, "")>>
    /\ UNCHANGED <<trace, outcome, loaderVars>>

ProbeWrite == ProbeAccess("write")
ProbeRead == ProbeAccess("read")
ProbeFlush == ProbeAccess("flush")
ProbePins == ProbeAccess("pins")

\* thread::sleep
ThreadSleep ==
    /\ Running
    /\ Instruction.kind = "sleep"
    /\ trace' = Append(trace, Event("sleep", Probe, {}, Instruction.us, TRUE, ""))
    /\ stack' = WithTop([Top EXCEPT !.pc = Instruction.next])
    /\ UNCHANGED <<outcome, loaderVars>>

\* let start = Instant::now()
ClockStart ==
    /\ Running
    /\ Instruction.kind = "now"
    /\ stack' = WithTop([Top EXCEPT !.pc = Instruction.next, !.timing = TRUE,
                                    !.late = FALSE, !.polls = 0, !.overdue = 0])
    /\ UNCHANGED <<trace, outcome, loaderVars>>

\* The deadline of the running poll loop passes.
TimePasses ==
    /\ Running
    /\ Top.timing
    /\ ~Top.late
    /\ \/ Instruction.kind = "elapsed"
       \/ Instruction.kind \in {"read", "pins"} /\ Instruction.poll
    /\ stack' = WithTop([Top EXCEPT !.late = TRUE])
    /\ UNCHANGED <<trace, outcome, loaderVars>>

\* start.elapsed() is compared with the deadline; the event's `ok` tells
\* whether the deadline still holds.
LoopTest ==
    /\ Running
    /\ Instruction.kind = "elapsed"
    /\ ~Top.late => Top.polls < MaxPolls
    /\ trace' = Append(trace, Event("elapsed", Probe, {}, Instruction.us, ~Top.late, ""))
    /\ stack' = WithTop([Top EXCEPT !.pc = IF Top.late THEN Instruction.past
                                                       ELSE Instruction.within])
    /\ UNCHANGED <<outcome, loaderVars>>

\* local = value
Assign ==
    /\ Running
    /\ Instruction.kind = "set"
    /\ stack' = WithTop([Top EXCEPT !.pc = Instruction.next,
                                    !.locals = Bind(@, Instruction.local, Instruction.value)])
    /\ UNCHANGED <<trace, outcome, loaderVars>>

\* A branch is taken.
Jump ==
    /\ Running
    /\ Instruction.kind = "goto"
    /\ stack' = WithTop([Top EXCEPT !.pc = Instruction.next])
    /\ UNCHANGED <<trace, outcome, loaderVars>>

\* A routine calls another; it goes on at `next` once that one returned Ok.
CallSequence ==
    /\ Running
    /\ Instruction.kind = "call"
    /\ stack' = Append(WithTop([Top EXCEPT !.pc = Instruction.next]),
                       Frame(Instruction.name, Instruction.args, Instruction.local))
    /\ UNCHANGED <<trace, outcome, loaderVars>>

\* A routine returns: to its caller when it returns Ok, and an Err through
\* every caller.
ReturnFromSequence ==
    /\ Running
    /\ Instruction.kind = "return"
    /\ \/ /\ Len(stack) = 1 \/ Instruction.result.kind = "Err"
          /\ stack' = <<>>
          /\ outcome' = Instruction.result
       \/ /\ Len(stack) > 1
          /\ Instruction.result.kind = "Ok"
          /\ LET caller == stack[Len(stack) - 1]
             IN stack' = [SubSeq(stack, 1, Len(stack) - 1) EXCEPT ![Len(stack) - 1] =
                              [caller EXCEPT !.locals =
                                   Bind(@, Top.into, Instruction.result)]]
          /\ UNCHANGED outcome
    /\ UNCHANGED <<trace, loaderVars>>

NextSeq ==
    \/ StartSequence
    \/ ProbeWrite
    \/ ProbeRead
    \/ ProbeFlush
    \/ ProbePins
    \/ ThreadSleep
    \/ ClockStart
    \/ TimePasses
    \/ LoopTest
    \/ Assign
    \/ Jump
    \/ CallSequence
    \/ ReturnFromSequence

\* The sequences use the probe alone; the loader is the one of a first description.
InitSeq == InitOf({CHOOSE sc \in Scenarios : TRUE})

SpecSeq == InitSeq /\ [][NextSeq]_vars

\* ================================================================ C15
\* What the common debug_port_start did so far.
StartEvents == SelectSeq(trace, LAMBDA e : e.seq = "debug_port_start")

\* The successful writes of the common debug_port_start.
StartWrites == SelectSeq(StartEvents, LAMBDA e : e.op = "write" /\ e.ok)

\* The common debug_port_start is about to return Ok(value).
StartReturns(value) ==
    /\ Running
    /\ Top.name = "debug_port_start"
    /\ Instruction.kind = "return"
    /\ Instruction.result = OkOf(value)

\* The first CTRL/STAT read of debug_port_start showed both power-up acks.
PoweredUpOnEntry ==
    \E i \in 1 .. Len(StartEvents) :
        /\ StartEvents[i].op = "read"
        /\ StartEvents[i].ok
        /\ \A j \in 1 .. i - 1 : StartEvents[j].op # "read"
        /\ {"csyspwrupack", "cdbgpwrupack"} \subseteq StartEvents[i].value

\* C15: the common debug_port_start returns true exactly when its first
\* CTRL/STAT read did not show both CSYSPWRUPACK and CDBGPWRUPACK; when it
\* returns false it has written SELECT and nothing else: no CTRL/STAT and no
\* ABORT write.
C15_ReturnsPoweredDown ==
    /\ StartReturns(TRUE) => ~PoweredUpOnEntry
    /\ StartReturns(FALSE) =>
           /\ PoweredUpOnEntry
           /\ Len(StartWrites) = 1
           /\ StartWrites[1].reg = Dp("SELECT")

\* debug_port_start found the port powered up and is about to return false.
C15_Witness == StartReturns(FALSE) /\ PoweredUpOnEntry /\ Len(StartWrites) = 1

\* ================================================================ C16
\* Event e is a write of `value` to CTRL/STAT, issued whether or not it succeeded.
IsCtrlWrite(e, value) ==
    e.op = "write" /\ e.reg = Dp("CTRL/STAT") /\ e.value = value

IsAbortWrite(e) == e.op = "write" /\ e.reg = Dp("ABORT")

\* Event e is a CTRL/STAT read that showed both power-up acks.
ShowsBothAcks(e) ==
    /\ e.op = "read"
    /\ e.ok
    /\ e.reg = Dp("CTRL/STAT")
    /\ {"csyspwrupack", "cdbgpwrupack"} \subseteq e.value

\* The common debug_port_start is about to return Timeout.
StartTimesOut ==
    /\ Running
    /\ Top.name = "debug_port_start"
    /\ Instruction.kind = "return"
    /\ Instruction.result = Timeout

\* C16: in the common debug_port_start the CTRL/STAT write with
\* MASK_LANE=0b1111 is issued only after a CTRL/STAT read showed both power-up
\* acks; the ABORT write that clears the four sticky errors comes right after
\* the lane-mask write succeeded and is the last transaction before the routine
\* returns true; a routine that returns Timeout has seen no read with both acks
\* and has issued neither the lane-mask write nor the ABORT write.
C16_LaneMaskAfterAcksThenAbort ==
    /\ \A i \in 1 .. Len(StartEvents) :
           /\ IsCtrlWrite(StartEvents[i], CtrlLaneMask) =>
                  \E j \in 1 .. i - 1 : ShowsBothAcks(StartEvents[j])
           /\ IsAbortWrite(StartEvents[i]) =>
                  /\ StartEvents[i].value = AbortClear
                  /\ i > 1
                  /\ IsCtrlWrite(StartEvents[i - 1], CtrlLaneMask)
                  /\ StartEvents[i - 1].ok
    /\ StartReturns(TRUE) =>
           /\ IsAbortWrite(StartEvents[Len(StartEvents)])
           /\ StartEvents[Len(StartEvents)].ok
    /\ StartTimesOut =>
           \A i \in 1 .. Len(StartEvents) :
               /\ ~ShowsBothAcks(StartEvents[i])
               /\ ~IsCtrlWrite(StartEvents[i], CtrlLaneMask)
               /\ ~IsAbortWrite(StartEvents[i])

\* debug_port_start powered the port up: a poll read showed both acks after one
\* that did not, and the lane-mask and ABORT writes followed.
C16_Witness ==
    /\ StartReturns(TRUE)
    /\ \E i, j \in 1 .. Len(StartEvents) :
           /\ i < j
           /\ StartEvents[i].op = "read" /\ StartEvents[i].line = 54
           /\ StartEvents[i].ok /\ ~ShowsBothAcks(StartEvents[i])
           /\ ShowsBothAcks(StartEvents[j])
    /\ IsAbortWrite(StartEvents[Len(StartEvents)])

\* ================================================================ C17
\* Event i of the trace is a poll loop finding its deadline passed while the
\* condition it waits for has not been read. (At line 768 the clock is looked
\* at only after nRESET was read high.)
ExpiredUnobserved(i) ==
    /\ trace[i].op = "elapsed"
    /\ ~trace[i].ok
    /\ trace[i].line # 768

\* The sequence has ended.
Ended == ~Running /\ outcome # No

\* C17: every poll loop of the vendor sequences has a finite deadline and
\* leaves once it has passed: no loop issues a second read after its deadline,
\* and when a loop finds its deadline passed without having read the condition
\* it waits for, nothing more is done and the sequence returns Timeout.
C17_ExpiredPollReturnsTimeout ==
    /\ \A k \in 1 .. Len(stack) : stack[k].overdue <= 1
    /\ \A i \in 1 .. Len(trace) :
           ExpiredUnobserved(i) =>
               /\ i = Len(trace)
               /\ Ended => outcome = Timeout

\* ================================================================ C18
\* The write of event j was followed by a flush before event i.
FlushedBefore(j, i) == \E k \in j + 1 .. i - 1 : trace[k].op = "flush"

\* C18: no sleep of a vendor sequence begins while a write issued earlier in
\* the sequence has not been followed by a flush.
C18_WritesFlushedBeforeSleep ==
    \A i \in 1 .. Len(trace) :
        trace[i].op = "sleep" =>
            \A j \in 1 .. i - 1 :
                trace[j].op = "write" /\ trace[j].ok => FlushedBefore(j, i)

\* ================================================================ C19
\* Event e is the reset request (the AIRCR write) or the flush after it, in the
\* reset_system of one of `families`.
IsResetRequest(e, families) ==
    /\ e.seq \in families
    /\ \/ e.op = "flush"
       \/ e.op = "write" /\ e.reg = Mem("AIRCR")

\* Event e is a read of the MIMXRT10xx reset poll that failed with an
\* AccessPort error.
IsToleratedPoll(e) ==
    /\ e.seq = "MIMXRT10xx_reset_system"
    /\ e.op = "read"
    /\ e.reg = Mem("DHCSR")
    /\ e.error \in {"AccessPort.RegisterRead", "AccessPort.RegisterWrite"}

\* Every failed access of the probe, but the reset requests of `families` and the tolerated
\* poll reads, is the last thing the sequence did, and the sequence has
\* returned its error.
SurfacesFirstFailure(families) ==
    \A i \in 1 .. Len(trace) :
        /\ trace[i].op \in {"write", "read", "flush", "pins"}
        /\ ~trace[i].ok
        /\ ~IsResetRequest(trace[i], families)
        /\ ~IsToleratedPoll(trace[i])
        => /\ i = Len(trace)
           /\ ~Running
           /\ outcome = Err(trace[i].error)

CatchSetSucceeded ==
    /\ Ended
    /\ outcome = Ok
    /\ trace # <<>>
    /\ trace[1].seq = "LPC55Sxx_reset_catch_set"

\* The successful reads, and writes, of the word at `address`, in order.
ReadsOf(address) ==
    SelectSeq(trace, LAMBDA e : e.op = "read" /\ e.ok /\ e.reg = Mem(address))
WritesOf(address) ==
    SelectSeq(trace, LAMBDA e : e.op = "write" /\ e.ok /\ e.reg = Mem(address))

Last(events) == events[Len(events)]

\* The flash status read after the flash-done poll shows no error
\* (status & 0xB == 0) and the word read from 0x0000_0004 is not 0xFFFF_FFFF.
VectorIsGood ==
    /\ ReadsOf("0x40034FE0") # <<>>
    /\ Last(ReadsOf("0x40034FE0")).value \cap Word(0, \hB) = {}
    /\ ReadsOf("0x00000004") # <<>>
    /\ Last(ReadsOf("0x00000004")).value # AllOnes

\* C20: when LPC55Sxx reset_catch_set returns Ok exactly one trap is armed.
\* If the flash status shows no error and the reset vector is not 0xFFFF_FFFF,
\* 0xE000_2008 was written vector | 1 and 0xE000_2000 was written 3, and no
\* DEMCR write set VC_CORERESET; otherwise the last DEMCR write set
\* VC_CORERESET and neither 0xE000_2000 nor 0xE000_2008 was written.
C20_ExactlyOneTrapArmed ==
    CatchSetSucceeded =>
        IF VectorIsGood
        THEN /\ Len(WritesOf("0xE0002008")) = 1
             /\ Last(WritesOf("0xE0002008")).value =
                    Last(ReadsOf("0x00000004")).value \cup Word(0, 1)
             /\ Len(WritesOf("0xE0002000")) = 1
             /\ Last(WritesOf("0xE0002000")).value = Word(0, 3)
             /\ \A i \in 1 .. Len(WritesOf("DEMCR")) :
                    "vc_corereset" \notin WritesOf("DEMCR")[i].value
        ELSE /\ WritesOf("DEMCR") # <<>>
             /\ "vc_corereset" \in Last(WritesOf("DEMCR")).value
             /\ WritesOf("0xE0002008") = <<>>
             /\ WritesOf("0xE0002000") = <<>>

\* reset_catch_set returned Ok after a flash status with an error bit: the
\* reset vector was not read and VC_CORERESET was set.
C20_Witness ==
    /\ CatchSetSucceeded
    /\ Last(ReadsOf("0x40034FE0")).value \cap Word(0, \hB) # {}
    /\ ReadsOf("0x00000004") = <<>>
    /\ "vc_corereset" \in Last(WritesOf("DEMCR")).value

\* ================================================================ C21
\* MIMXRT10xx reset_system is the sequence that was started.
ResetPollRan == trace # <<>> /\ trace[1].seq = "MIMXRT10xx_reset_system"

\* Event i is a read of the DHCSR poll of MIMXRT10xx reset_system.
IsResetPollRead(i) ==
    /\ trace[i].seq = "MIMXRT10xx_reset_system"
    /\ trace[i].op = "read"
    /\ trace[i].reg = Mem("DHCSR")

\* Event i is a poll read that showed S_RESET_ST clear.
IsClearRead(i) ==
    IsResetPollRead(i) /\ trace[i].ok /\ "s_reset_st" \notin trace[i].value

\* The poll goes on after event i: the sequence has not returned on it.
PollContinuesAfter(i) == i = Len(trace) => Running /\ outcome = No

\* The sequence returned `res` on event i and did nothing after it.
ReturnedOn(i, res) ==
    /\ i = Len(trace)
    /\ Ended => outcome = res
    /\ Running => Instruction = Finish(res)

\* The MIMXRT10xx reset poll, with `tolerated` the errors of a poll read it
\* goes on after: such a read, and a read with S_RESET_ST set, do not end the
\* sequence; any other failed read is returned at once; the first read with
\* S_RESET_ST clear returns Ok; a deadline found passed returns Timeout, and
\* the sequence returns Ok or Timeout in no other way.
TolerantResetPoll(tolerated) ==
    ResetPollRan =>
        /\ \A i \in 1 .. Len(trace) :
               /\ IsResetPollRead(i) /\ ~trace[i].ok /\ trace[i].error \in tolerated
                  => PollContinuesAfter(i)
               /\ IsResetPollRead(i) /\ ~trace[i].ok /\ trace[i].error \notin tolerated
                  => i = Len(trace) /\ ~Running /\ outcome = Err(trace[i].error)
               /\ IsResetPollRead(i) /\ trace[i].ok /\ ~IsClearRead(i)
                  => PollContinuesAfter(i)
               /\ IsClearRead(i) => ReturnedOn(i, Ok)
               /\ trace[i].op = "elapsed" /\ ~trace[i].ok => ReturnedOn(i, Timeout)
        /\ Ended /\ outcome = Ok => IsClearRead(Len(trace))
        /\ Ended /\ outcome = Timeout =>
               trace[Len(trace)].op = "elapsed" /\ ~trace[Len(trace)].ok

\* C21 as stated: in the DHCSR poll of MIMXRT10xx reset_system an AP
\* register-read error is not fatal and the poll goes on, any other error is
\* returned at once, the first read with S_RESET_ST clear returns success, and
\* without such a read before the 500 ms deadline the routine returns Timeout.
C21_OnlyRegisterReadTolerated == TolerantResetPoll({"AccessPort.RegisterRead"})

\* C21, amended: as stated, with an AP register-write error of the poll read
\* not fatal either.
C21_RegisterErrorsTolerated ==
    TolerantResetPoll({"AccessPort.RegisterRead", "AccessPort.RegisterWrite"})

\* MIMXRT10xx reset_system returned Ok on a read with S_RESET_ST clear that
\* came after three poll reads failed with AccessPort RegisterRead errors.
C21_Witness ==
    /\ ResetPollRan
    /\ Ended
    /\ outcome = Ok
    /\ IsClearRead(Len(trace))
    /\ Cardinality({i \in 1 .. Len(trace) :
                       /\ IsResetPollRead(i)
                       /\ ~trace[i].ok
                       /\ trace[i].error = "AccessPort.RegisterRead"}) = 3

\* ================================================================ C22
\* MIMXRT6xx reset_hardware_deassert is the sequence that was started.
DeassertRan == trace # <<>> /\ trace[1].seq = "MIMXRT6xx_reset_hardware_deassert"

\* Event i is a read of the nRESET poll (line 770), or the blind assert (774).
IsPinPoll(i) == trace[i].op = "pins" /\ trace[i].line = 770
IsBlindAssert(i) == trace[i].op = "pins" /\ trace[i].line = 774

\* The readback probe of line 760 succeeded and showed that pins can be read.
CanReadPins == trace[1].op = "pins" /\ trace[1].ok /\ trace[1].value # AllOnes

\* C22: MIMXRT6xx reset_hardware_deassert terminates whatever nRESET does.
\* With pin readback it polls until nRESET reads high or the 1 s deadline has
\* passed, whichever comes first: no poll read follows one that showed nRESET
\* high, and no second read is issued after the deadline. Without readback it
\* asserts the pins once, sleeps 100 ms, and polls nothing.
C22_DeassertIsBounded ==
    DeassertRan =>
        /\ \A i, j \in 1 .. Len(trace) :
               /\ IsPinPoll(i)
               /\ trace[i].ok
               /\ trace[i].value \cap n_reset # {}
               /\ i < j
               => ~IsPinPoll(j)
        /\ \A k \in 1 .. Len(stack) : stack[k].overdue <= 1
        /\ trace[1].ok /\ ~CanReadPins =>
               /\ \A i \in 1 .. Len(trace) : ~IsPinPoll(i)
               /\ Cardinality({i \in 1 .. Len(trace) : IsBlindAssert(i)}) <= 1
               /\ Ended /\ outcome = Ok =>
                      /\ IsBlindAssert(Len(trace) - 1)
                      /\ trace[Len(trace)].op = "sleep"
                      /\ trace[Len(trace)].us = 100000

\* ================================================================ C23
\* Staged data reaches into the range of the region.
HoldsData(region) ==
    \E a \in DOMAIN data : a < region.end /\ region.start < SpanEnd(data, a)

\* The errors the grouping loop of commit returns.
GroupingErrors ==
    {"NoFlashLoaderAlgorithmAttached", "MultipleFlashLoaderAlgorithmsNoDefault",
     "MultipleDefaultFlashLoaderAlgorithms", "NoNvmCoreAccess"}

\* Indexes of the Nvm regions without data that grouping would fail for: no
\* single algorithm is selected for the region, or it lists no core.
DataLessUnserved ==
    {i \in 1 .. Len(memory_map) :
        /\ memory_map[i].kind = "Nvm"
        /\ i \notin NvmWithData
        /\ SelectionOf(i).kind # "Algo" \/ Len(memory_map[i].cores) = 0}

\* C23: commit skips an Nvm region without staged data before it resolves an
\* algorithm: such a region is in no group, is handed to no Flasher and is
\* never programmed, and commit returns a grouping error only when an Nvm
\* region with data has no single algorithm or no core; with an empty builder
\* there is no group and no Flasher is constructed.
C23_DataLessNvmSkipped ==
    /\ \A key \in DOMAIN algos : \A k \in 1 .. Len(algos[key]) : HoldsData(algos[key][k])
    /\ flasher # No =>
           \A k \in 1 .. Len(flasher.regions) : HoldsData(flasher.regions[k])
    /\ \A i \in Ops("program") : HoldsData(log[i].region)
    /\ Returned /\ Ungrouped = {} => result.kind \notin GroupingErrors
    /\ data = EmptyData =>
           /\ DOMAIN algos = {}
           /\ flasher = No
           /\ Ops("Flasher::new") = {}

\* A commit returned Ok, having written RAM, on a loader whose Nvm regions hold
\* no data and have no single algorithm.
C23_Witness ==
    /\ Returned
    /\ result = Ok
    /\ ~options.dry_run
    /\ Ops("write_8") # {}
    /\ DataLessUnserved # {}
    /\ NvmWithData = {}

\* ================================================================ C24
\* Indexes of the Nvm regions that hold staged data and list no core.
Coreless == {i \in NvmWithData : Len(memory_map[i].cores) = 0}

\* C24 as stated: when an Nvm region with staged data lists no core, commit
\* fails with NoNvmCoreAccess for such a region, whatever algorithms the
\* target declares, and no Flasher has been constructed.
C24_CorelessNvmFailsWithNoNvmCoreAccess ==
    Returned /\ Coreless # {} =>
        /\ result \in {NoNvmCoreAccess(memory_map[i]) : i \in Coreless}
        /\ Ops("Flasher::new") = {}

\* C24, amended: when an Nvm region with staged data lists no core, commit
\* fails in the grouping loop, before any Flasher is constructed and with
\* nothing done, with the error of the first Nvm region with data the loop
\* fails for: the error of the algorithm selection if no single algorithm is
\* selected for that region, and NoNvmCoreAccess for it otherwise.
C24_CorelessNvmFailsInGrouping ==
    Returned /\ Coreless # {} =>
        /\ result = GroupingError
        /\ result.kind \in GroupingErrors
        /\ log = <<>>
        /\ LET i == CHOOSE x \in Ungrouped : \A y \in Ungrouped : x <= y
           IN  result = NoNvmCoreAccess(memory_map[i]) <=>
                   i \in Coreless /\ SelectionOf(i).kind = "Algo"

\* commit returned NoNvmCoreAccess for an Nvm region with data that lists no
\* core and has a single algorithm.
C24_Witness ==
    /\ Returned
    /\ \E i \in Coreless :
           /\ SelectionOf(i).kind = "Algo"
           /\ result = NoNvmCoreAccess(memory_map[i])
    /\ log = <<>>

\* ================================================================ C25
\* The Ram regions of the loader's memory map.
RamRegions == {r \in RegionsOf(memory_map) : r.kind = "Ram"}

\* Log entry e writes the whole span staged at address a, which lies within
\* Ram region r.
WritesSpan(e, a, r) ==
    /\ e.address = a
    /\ e.bytes = data[a]
    /\ r.start <= a
    /\ SpanEnd(data, a) <= r.end

\* Log entry e writes what Ram region r holds of the span staged at address a:
\* the bytes of the span that lie inside r, each at its staged address.
WritesSpanInside(e, a, r) ==
    /\ a < r.end
    /\ r.start < SpanEnd(data, a)
    /\ e.address = (IF a >= r.start THEN a ELSE r.start)
    /\ e.address + Len(e.bytes) = (IF SpanEnd(data, a) <= r.end THEN SpanEnd(data, a) ELSE r.end)
    /\ \A k \in 1 .. Len(e.bytes) : e.bytes[k] = data[a][e.address - a + k]

FallibleOps == {"Flasher::new", "run_erase_all", "program", "core", "write_8", "read"}

ErrorOf(op) == IF op \in FlasherOps THEN FlasherError ELSE CoreError

\* Indexes of the failed operations in the log.
Failed == {i \in 1 .. Len(log) : log[i].op \in FallibleOps /\ ~log[i].ok}

\* A failed operation is the last one commit performed, and commit has
\* returned its error.
FailureEndsCommit ==
    \A i \in Failed :
        /\ i = Len(log)
        /\ Returned
        /\ result = ErrorOf(log[i].op)

\* The step in which commit returns the error of a failed operation.
FailureReturn ==
    /\ pc # "idle"
    /\ pc' = "idle"
    /\ result' \in {FlasherError, CoreError}

\* The staged bytes inside a region are in the target's memory.
Programmed_in(m, region) ==
    \A x \in RangeOf(region) \cap Addrs : Covered(data, x) => m[x] = ByteAt(data, x)

\* C26: commit is not transactional. A failed Flasher construction,
\* run_erase_all, program, core attach or RAM write (or read-back) is the last
\* operation commit performs and commit returns its error, the Flasher's or
\* the core's; the step that returns the error ends with the failed
\* operation and leaves the target's memory as it was: nothing is rolled back,
\* and a region that was programmed still is.
C26_FailureEndsCommitWithoutRollback ==
    /\ []FailureEndsCommit
    /\ [][FailureReturn =>
              /\ SubSeq(log', 1, Len(log)) = log
              /\ Len(log') \in Failed'
              /\ mem' = mem
              /\ \A j \in Ops("program") :
                     Programmed_in(mem, log[j].region) => Programmed_in(mem', log[j].region)]_vars

\* A RAM write failed after a region was programmed, and the region holds
\* its staged bytes.
C26_Witness ==
    /\ Returned
    /\ result = CoreError
    /\ Len(log) \in Ops("write_8")
    /\ ~log[Len(log)].ok
    /\ \E j \in Ops("program") :
           /\ log[j].ok
           /\ Programmed_in(mem, log[j].region)
           /\ \E x \in RangeOf(log[j].region) \cap Addrs : Covered(data, x)

\* ================================================================ C27
\* The steps of a debug-mailbox activation, as traced: the accesses of the
\* routine to the raw registers of AP #2, its flushes and its sleeps. The
\* activation begins after the routine's diagnostic read of DPIDR (the
\* MIMXRT6xx routine reads CSW before that, to decide whether to activate).
MailboxSteps(routine) ==
    LET IsStep(e) ==
            /\ e.seq = routine
            /\ \/ e.op \in {"flush", "sleep"}
               \/ e.reg.space = "raw_ap" /\ e.reg.ap = 2
        begun == {i \in 1 .. Len(trace) :
                     /\ trace[i].seq = routine
                     /\ trace[i].op = "read"
                     /\ trace[i].reg = Dp("DPIDR")
                     /\ trace[i].ok}
    IN  IF begun = {} THEN <<>>
        ELSE SelectSeq(SubSeq(trace, (CHOOSE i \in begun : TRUE) + 1, Len(trace)), IsStep)

\* The handshake: what is done, on what, and (for a write) with what value or
\* (for a sleep) for how long.
Handshake ==
    << [op |-> "write", reg |-> RawAp(2, "0x0"), value |-> Word(0, \h21), us |-> 0],
       [op |-> "flush", reg |-> Probe, value |-> {}, us |-> 0],
       [op |-> "sleep", reg |-> Probe, value |-> {}, us |-> 30000],
       [op |-> "read", reg |-> RawAp(2, "0x0"), value |-> {}, us |-> 0],
       [op |-> "write", reg |-> RawAp(2, "0x4"), value |-> Word(0, 7), us |-> 0],
       [op |-> "flush", reg |-> Probe, value |-> {}, us |-> 0],
       [op |-> "sleep", reg |-> Probe, value |-> {}, us |-> 30000],
       [op |-> "read", reg |-> RawAp(2, "0x8"), value |-> {}, us |-> 0] >>

\* Step e is the step `expected` of the handshake.
IsHandshakeStep(e, expected) ==
    /\ e.op = expected.op
    /\ e.reg = expected.reg
    /\ e.us = expected.us
    /\ e.op = "write" => e.value = expected.value

\* The steps are the handshake, or the handshake up to the step that failed
\* or that was last issued.
FollowsHandshake(steps) ==
    /\ Len(steps) <= Len(Handshake)
    /\ \A k \in 1 .. Len(steps) :
           /\ IsHandshakeStep(steps[k], Handshake[k])
           /\ k < Len(steps) => steps[k].ok

\* C27 as stated: every debug-mailbox activation on AP #2, that of LPC55Sxx
\* and that of MIMXRT6xx, executes in this order: write offset 0x0 with 0x21,
\* flush, sleep 30 ms, read offset 0x0, write offset 0x4 with 0x7, flush,
\* sleep 30 ms, read offset 0x8.
C27_MailboxHandshakeInOrder ==
    /\ FollowsHandshake(MailboxSteps("enable_debug_mailbox"))
    /\ FollowsHandshake(MailboxSteps("MIMXRT6xx_enable_debug_mailbox"))

\* ================================================================ C28
\* What the LPC55Sxx debug-mailbox activation did so far, and whether it ran
\* to its end: the two diagnostic reads and the eight steps of the handshake.
MailboxEvents == SelectSeq(trace, LAMBDA e : e.seq = "enable_debug_mailbox")

MailboxDone ==
    /\ Len(MailboxEvents) = Len(Handshake) + 2
    /\ \A k \in 1 .. Len(MailboxEvents) : MailboxEvents[k].ok
    /\ FollowsHandshake(MailboxSteps("enable_debug_mailbox"))

\* LPC55Sxx debug_port_start runs, and the common routine has reported
\* whether the port was powered down.
LpcStartRuns == Running /\ stack[1].name = "LPC55Sxx_debug_port_start"

LpcStartReported(value) ==
    /\ "powered_down" \in DOMAIN stack[1].locals
    /\ stack[1].locals.powered_down = OkOf(value)

\* LPC55Sxx reset_system is the sequence that was started: its reset request
\* is the first access.
LpcResetRan == trace # <<>> /\ trace[1].seq = "LPC55Sxx_reset_system"

\* Event i is a read of DHCSR by wait_for_stop_after_reset: one of the
\* S_RESET_ST poll, or the S_HALT read after the poll.
IsStopRead(i) ==
    /\ trace[i].seq = "wait_for_stop_after_reset"
    /\ trace[i].op = "read"
    /\ trace[i].reg = Mem("DHCSR")

IsHaltRead(i) == IsStopRead(i) /\ trace[i].line = 270

IsHaltWrite(i) ==
    /\ trace[i].seq = "wait_for_stop_after_reset"
    /\ trace[i].op = "write"
    /\ trace[i].reg = Mem("DHCSR")

\* The post-reset sleeps before event i: 10 ms in reset_system and 10 ms in
\* wait_for_stop_after_reset.
SleptBefore(i) ==
    \E a, b \in 1 .. i - 1 :
        /\ a < b
        /\ trace[a].op = "sleep" /\ trace[a].us = 10000
        /\ trace[a].seq = "LPC55Sxx_reset_system"
        /\ trace[b].op = "sleep" /\ trace[b].us = 10000
        /\ trace[b].seq = "wait_for_stop_after_reset"

Rt11StartEvents == SelectSeq(trace, LAMBDA e : e.seq = "MIMXRT11xx_debug_port_start")

\* A word written to the target's memory through MemoryAp #0: TAR <- address,
\* then DRW <- value.
Store(address, value) ==
    << [op |-> "write", reg |-> Ap(0, "TAR"), value |-> address],
       [op |-> "write", reg |-> Ap(0, "DRW"), value |-> value] >>

\* The stores of debug_port_start, in order: the CM7 trap code at 0x2001_FF00
\* and IOMUX_LPSR_GPR26 <- 0x0040_03FE; the CM4 trap code at 0x2025_0000,
\* IOMUX_LPSR_GPR0 <- 0x0000 and IOMUX_LPSR_GPR1 <- 0x2025; SRC_SCR <- 1.
Rt11Stores ==
    Store(Word(\h2001, \hFF00), Word(\h2001, \hFF20))
    \o Store(Word(\h2001, \hFF04), Word(\h0002, \h3105))
    \o Store(Word(\h40C0, \hC068), Word(\h0040, \h03FE))
    \o Store(Word(\h2025, \h0000), Word(\h2025, \h0020))
    \o Store(Word(\h2025, \h0004), Word(\h0023, \hF041))
    \o Store(Word(\h40C0, \hC000), Word(0, 0))
    \o Store(Word(\h40C0, \hC004), Word(0, \h2025))
    \o Store(Word(\h40C0, \h4000), Word(0, 1))

\* Where the update of SRC_SBMR begins: TAR <- 0x40C0_4004, read DRW, write DRW.
SbmrAt == Len(Rt11Stores) + 1

\* C29: MIMXRT11xx debug_port_start, once the common start routine is done,
\* accesses MemoryAp #0 alone and stores, in this order, the CM7 trap code and
\* IOMUX_LPSR_GPR26 = 0x2001_FF00 >> 7, the CM4 trap code, IOMUX_LPSR_GPR0 =
\* the low and IOMUX_LPSR_GPR1 = the high 16 bits of 0x2025_0000, and only
\* then SRC_SCR = 1; the update of SRC_SBMR comes last: the register is read
\* and written back with bits 10 to 13 set and every other bit as read.
C29_TrapCodeThenReleaseThenSbmr ==
    LET ev == Rt11StartEvents
    IN  /\ Len(ev) <= SbmrAt + 2
        /\ \A i, j \in 1 .. Len(trace) :
               trace[i].seq = "debug_port_start" /\ trace[j].seq = "MIMXRT11xx_debug_port_start"
                   => i < j
        /\ \A k \in 1 .. Len(ev) :
               /\ ev[k].reg.space = "ap" /\ ev[k].reg.ap = 0
               /\ k < Len(ev) => ev[k].ok
               /\ k < SbmrAt =>
                      /\ ev[k].op = Rt11Stores[k].op
                      /\ ev[k].reg = Rt11Stores[k].reg
                      /\ ev[k].value = Rt11Stores[k].value
               /\ k = SbmrAt =>
                      /\ ev[k].op = "write"
                      /\ ev[k].reg = Ap(0, "TAR")
                      /\ ev[k].value = Word(\h40C0, \h4004)
               /\ k = SbmrAt + 1 => ev[k].op = "read" /\ ev[k].reg = Ap(0, "DRW")
               /\ k = SbmrAt + 2 =>
                      /\ ev[k].op = "write"
                      /\ ev[k].reg = Ap(0, "DRW")
                      /\ 10 .. 13 \subseteq ev[k].value
                      /\ ev[k].value \ (10 .. 13) = ev[k - 1].value \ (10 .. 13)
        /\ Ended /\ outcome = Ok /\ ev # <<>> => Len(ev) = SbmrAt + 2

\* debug_port_start returned Ok having read SRC_SBMR as 0x0000_0401 and
\* written it back as 0x0000_3C01.
C29_Witness ==
    /\ outcome = Ok
    /\ Len(Rt11StartEvents) = SbmrAt + 2
    /\ Rt11StartEvents[SbmrAt + 1].value = Word(0, \h0401)
    /\ Rt11StartEvents[SbmrAt + 2].value = Word(0, \h3C01)
    /\ Rt11StartEvents[SbmrAt + 2].ok

\* ================================================================ C30
\* MIMXRT11xx reset_system is the sequence that was started.
Rt11ResetRan == trace # <<>> /\ trace[1].seq = "MIMXRT11xx_reset_system"

\* The steps of MIMXRT11xx reset_system; `must` marks the accesses whose
\* failure ends the sequence.
Rt11ResetSteps ==
    << [op |-> "write", reg |-> Mem("DHCSR"), must |-> TRUE],
       [op |-> "sleep", reg |-> Probe, must |-> TRUE],
       [op |-> "write", reg |-> Mem("AIRCR"), must |-> FALSE],
       [op |-> "flush", reg |-> Probe, must |-> FALSE],
       [op |-> "sleep", reg |-> Probe, must |-> TRUE],
       [op |-> "read", reg |-> Mem("DHCSR"), must |-> TRUE] >>

\* C30: MIMXRT11xx reset_system first writes the DHCSR halt request (key,
\* C_HALT, C_DEBUGEN); when that write fails its error is returned and no
\* reset is requested. The reset request is VECTRESET, never SYSRESETREQ; a
\* failure of the request or of the flush after it does not end the sequence;
\* the outcome is that of the final DHCSR read: Ok when it succeeds, its
\* error when it fails.
C30_HaltThenVectResetThenRead ==
    Rt11ResetRan =>
        /\ Len(trace) <= Len(Rt11ResetSteps)
        /\ \A k \in 1 .. Len(trace) :
               /\ trace[k].op = Rt11ResetSteps[k].op
               /\ trace[k].reg = Rt11ResetSteps[k].reg
               /\ trace[k].op = "sleep" => trace[k].us = 100000
               /\ Rt11ResetSteps[k].must /\ ~trace[k].ok =>
                      ReturnedOn(k, Err(trace[k].error))
               /\ ~Rt11ResetSteps[k].must /\ ~trace[k].ok /\ k = Len(trace) =>
                      Running /\ outcome = No
        /\ trace[1].value = DhcsrHalt
        /\ \A k \in 1 .. Len(trace) :
               trace[k].reg = Mem("AIRCR") =>
                   /\ trace[1].ok
                   /\ trace[k].value = AircrVectReset
                   /\ "sysresetreq" \notin trace[k].value
        /\ Ended /\ trace[1].ok => Len(trace) = Len(Rt11ResetSteps)
        /\ Len(trace) = Len(Rt11ResetSteps) /\ trace[Len(trace)].ok => ReturnedOn(Len(trace), Ok)

\* reset_system returned Ok although the reset request and its flush failed.
C30_Witness ==
    /\ Rt11ResetRan
    /\ outcome = Ok
    /\ Len(trace) = Len(Rt11ResetSteps)
    /\ ~trace[3].ok
    /\ ~trace[4].ok

\* ================================================================ C31
\* MIMXRT6xx debug_port_start is the sequence that was started: its ABORT
\* write is the first access.
Rt6StartRan == trace # <<>> /\ trace[1].seq = "MIMXRT6xx_debug_port_start"

\* Event i is a write of the MIMXRT6xx debug-mailbox activation to AP #2.
IsRt6MailboxWrite(i) ==
    /\ trace[i].seq = "MIMXRT6xx_enable_debug_mailbox"
    /\ trace[i].op = "write"
    /\ trace[i].reg.space = "raw_ap"
    /\ trace[i].reg.ap = 2

\* Event i is the read of CSW of access port `ap` by which the MIMXRT6xx
\* routine decides whether to activate the mailbox, and DbgStatus read as
\* `set`.
IsDbgStatusRead(i, ap, set) ==
    /\ trace[i].seq = "MIMXRT6xx_enable_debug_mailbox"
    /\ trace[i].line = 619
    /\ trace[i].op = "read"
    /\ trace[i].reg = RawAp(ap, "0x0")
    /\ trace[i].ok
    /\ csw_debug_status(trace[i].value) = set

\* debug_port_start clears the sticky errors, runs the common routine and
\* then activates the mailbox only if DbgStatus of CSW of `ap` reads clear.
Rt6StartDecidesOn(ap) ==
    Rt6StartRan =>
        /\ trace[1].op = "write"
        /\ trace[1].reg = Dp("ABORT")
        /\ trace[1].value = AbortClear
        /\ \A i \in 2 .. Len(trace) :
               /\ trace[1].ok
               /\ trace[i].seq \in {"debug_port_start", "MIMXRT6xx_enable_debug_mailbox"}
               /\ trace[i].seq = "debug_port_start" =>
                      \A j \in 1 .. i : trace[j].seq # "MIMXRT6xx_enable_debug_mailbox"
               /\ IsRt6MailboxWrite(i) => \E j \in 1 .. i - 1 : IsDbgStatusRead(j, ap, FALSE)
               /\ IsDbgStatusRead(i, ap, TRUE) => i = Len(trace)

\* C31 as stated: MIMXRT6xx debug_port_start first writes ABORT to clear the
\* sticky errors, then runs the common start routine, then activates the
\* debug mailbox only when DbgStatus (bit 6) of CSW of AP #0 reads clear; when
\* it reads set no mailbox write is issued.
C31_MailboxOnlyWhenAp0DbgStatusClear == Rt6StartDecidesOn(0)

\* ================================================================ C32
\* MIMXRT6xx reset_system is the sequence that was started.
Rt6ResetRan == trace # <<>> /\ trace[1].seq = "MIMXRT6xx_reset_system"

\* What reset_system did itself, and what wait_for_stop_after_reset did.
Rt6ResetEvents == SelectSeq(trace, LAMBDA e : e.seq = "MIMXRT6xx_reset_system")
Rt6StopEvents ==
    SelectSeq(trace, LAMBDA e : e.seq = "MIMXRT6xx_wait_for_stop_after_reset")

\* A write of a 32-bit word to the target's memory.
WordWrite(address, hi, lo) ==
    [op |-> "write", reg |-> Mem(address), word |-> TRUE, value |-> Word(hi, lo)]
\* Any other step: its value is not a word, or does not matter.
OtherStep(op, reg) == [op |-> op, reg |-> reg, word |-> FALSE, value |-> {}]

\* The steps of reset_system up to the call of wait_for_stop_after_reset: the
\* halt write, the DEMCR update, the flash reset, the arming of the DWT
\* comparator, the reset request and the flush.
Rt6ResetSteps ==
    << WordWrite("DHCSR", \hA05F, \h0003),
       OtherStep("read", Mem("DEMCR")),
       OtherStep("write", Mem("DEMCR")),
       WordWrite("0x40004130", 0, \h130),
       WordWrite("0x40021044", 0, 4),
       WordWrite("0x40020074", 0, 4),
       WordWrite("0x40102008", 0, \h1000),
       WordWrite("0x40102288", 0, \h1000),
       OtherStep("sleep", Probe),
       WordWrite("0x40102208", 0, \h1000),
       WordWrite("0xE0001020", \h5000, \h2034),
       WordWrite("0xE0001028", 0, \h0814),
       OtherStep("write", Mem("AIRCR")),
       OtherStep("flush", Probe) >>

\* The last steps of wait_for_stop_after_reset: the halt write and the
\* comparator written back to 0.
Rt6StopTail ==
    << WordWrite("DHCSR", \hA05F, \h0003),
       WordWrite("0xE0001020", 0, 0),
       WordWrite("0xE0001028", 0, 0) >>

\* Event e is the step `expected`.
IsResetStep(e, expected) ==
    /\ e.op = expected.op
    /\ e.reg = expected.reg
    /\ expected.word => e.value = expected.value

\* C32: MIMXRT6xx reset_system performs, in this order, the halt write to
\* DHCSR, the DEMCR update (TRCENA set, VC_CORERESET cleared), the flash reset
\* writes, the arming of the DWT comparator at 0xE000_1020 and 0xE000_1028,
\* SYSRESETREQ, the flush, and wait_for_stop_after_reset; the comparator is
\* armed before the reset request, and on every successful return the last
\* accesses are the halt write DHCSR = 0xA05F_0003 and, after it, the writes
\* of 0 to both comparator registers.
C32_ResetOrderAndComparatorCleared ==
    Rt6ResetRan =>
        LET ev == Rt6ResetEvents
            n == Len(trace)
        IN  /\ Len(ev) <= Len(Rt6ResetSteps)
            /\ \A k \in 1 .. Len(ev) : IsResetStep(ev[k], Rt6ResetSteps[k])
            /\ Len(ev) >= 3 =>
                   /\ "trcena" \in ev[3].value
                   /\ "vc_corereset" \notin ev[3].value
                   /\ ev[3].value \ {"trcena"} = ev[2].value \ {"vc_corereset"}
            /\ Len(ev) >= 13 => ev[13].value = AircrSysReset
            /\ \A i \in 1 .. n :
                   /\ ~trace[i].ok /\ trace[i].op # "elapsed" => i = n /\ outcome # Ok
                   /\ trace[i].seq # "MIMXRT6xx_reset_system" =>
                          /\ i > Len(Rt6ResetSteps)
                          /\ Len(ev) = Len(Rt6ResetSteps)
            /\ outcome = Ok =>
                   /\ Rt6StopEvents # <<>>
                   /\ n >= Len(ev) + 3
                   /\ \A k \in 1 .. 3 :
                          /\ trace[n - 3 + k].seq = "MIMXRT6xx_wait_for_stop_after_reset"
                          /\ IsResetStep(trace[n - 3 + k], Rt6StopTail[k])
                          /\ trace[n - 3 + k].ok

\* reset_system returned Ok having found VC_CORERESET set in DEMCR and
\* activated the debug mailbox after the reset.
C32_Witness ==
    /\ Rt6ResetRan
    /\ outcome = Ok
    /\ "vc_corereset" \in Rt6ResetEvents[2].value
    /\ \E i \in 1 .. Len(trace) : IsRt6MailboxWrite(i)
    /\ trace[Len(trace)].reg = Mem("0xE0001028")
    /\ trace[Len(trace)].value = {}

\* ================================================================ C33
\* reset_catch_set followed by reset_catch_clear, once or several times, on
\* one target: a register the sequences wrote reads back as it was last
\* written.

\* The most reset_catch_clear calls after one reset_catch_set.
MaxClears == 2

\* What register `reg` holds after the first n events, as far as the
\* sequences know: the value of the last successful write to it.
RegAt(reg, n) ==
    LET w == {i \in 1 .. n : trace[i].op = "write" /\ trace[i].reg = reg /\ trace[i].ok}
    IN  IF w = {} THEN [known |-> FALSE, value |-> {}]
        ELSE [known |-> TRUE, value |-> trace[CHOOSE i \in w : \A j \in w : j <= i].value]

\* What a read of `reg` may return now.
Held(reg) ==
    IF RegAt(reg, Len(trace)).known THEN {RegAt(reg, Len(trace)).value}
    ELSE ReadValues(reg)

\* The reset_catch_clear calls begun so far: each begins with its write to
\* FPB comparator 0.
ClearsBegun ==
    {i \in 1 .. Len(trace) :
        trace[i].seq = "LPC55Sxx_reset_catch_clear" /\ trace[i].line = 204}

\* reset_catch_set is called on a target nothing was done to.
CatchSet ==
    /\ ~Running
    /\ outcome = No
    /\ trace = <<>>
    /\ stack' = <<Frame("LPC55Sxx_reset_catch_set", NoLocals, "")>>
    /\ UNCHANGED <<trace, outcome, loaderVars>>

\* reset_catch_clear is called after a sequence that returned Ok.
CatchClear ==
    /\ ~Running
    /\ outcome = Ok
    /\ Cardinality(ClearsBegun) < MaxClears
    /\ stack' = <<Frame("LPC55Sxx_reset_catch_clear", NoLocals, "")>>
    /\ outcome' = No
    /\ UNCHANGED <<trace, loaderVars>>

\* One access of the probe to the target: a read returns what the register
\* holds.
TargetAccess(kind) ==
    /\ Running
    /\ Instruction.kind = kind
    /\ Instruction.poll => Top.polls < MaxPolls
    /\ \/ \E v \in (IF kind = "read" THEN Held(Instruction.reg) ELSE {Instruction.value}) :
              /\ trace' = Append(trace, Event(kind, Instruction.reg, v, 0, TRUE, ""))
              /\ stack' = WithTop([Polled(Top, Instruction.poll) EXCEPT
                                       !.pc = Instruction.next,
                                       !.locals = Bind(@, Instruction.local, v)])
              /\ UNCHANGED outcome
       \/ \E e \in ArmErrors :
              /\ trace' = Append(trace,
                                 Event(kind, Instruction.reg, Instruction.value, 0, FALSE, e))
              /\ AfterFailure(IF IsApRegisterError(e) THEN Instruction.ap_err
                                                       ELSE Instruction.err,
                              e, Instruction.poll)
    /\ UNCHANGED loaderVars

TargetWrite == TargetAccess("write")
TargetRead == TargetAccess("read")
TargetFlush == TargetAccess("flush")

NextCatch ==
    \/ CatchSet
    \/ CatchClear
    \/ TargetWrite
    \/ TargetRead
    \/ TargetFlush
    \/ ClockStart
    \/ TimePasses
    \/ LoopTest
    \/ Assign
    \/ Jump
    \/ ReturnFromSequence

SpecCatch == InitSeq /\ [][NextCatch]_vars

\* The events on which a reset_catch_clear succeeded: its DEMCR write, the
\* last of its accesses.
ClearsDone ==
    {i \in 1 .. Len(trace) :
        /\ trace[i].seq = "LPC55Sxx_reset_catch_clear"
        /\ trace[i].op = "write"
        /\ trace[i].reg = Mem("DEMCR")
        /\ trace[i].ok}

\* The registers the sequences wrote.
WrittenRegs == {trace[i].reg : i \in {j \in 1 .. Len(trace) : trace[j].op = "write"}}

\* reset_catch_set succeeded before event n.
CatchWasSet(n) ==
    \E i \in 1 .. n :
        /\ trace[i].seq = "LPC55Sxx_reset_catch_set"
        /\ trace[i].line = 191
        /\ trace[i].ok

\* C33: after a successful reset_catch_set, whichever trap it armed, a
\* successful reset_catch_clear leaves FPB comparator 0 (0xE000_2008) at 0,
\* 0xE000_2000 at 2 and DEMCR with VC_CORERESET clear and every other bit as
\* it was (and as it was read); a second reset_catch_clear leaves every
\* register as the first left it.
C33_ClearUndoesSetAndIsIdempotent ==
    \A n \in ClearsDone :
        /\ CatchWasSet(n)
        /\ RegAt(Mem("0xE0002008"), n) = [known |-> TRUE, value |-> Word(0, 0)]
        /\ RegAt(Mem("0xE0002000"), n) = [known |-> TRUE, value |-> Word(0, 2)]
        /\ "vc_corereset" \notin RegAt(Mem("DEMCR"), n).value
        /\ RegAt(Mem("DEMCR"), n).value \ {"vc_corereset"}
               = RegAt(Mem("DEMCR"), n - 1).value \ {"vc_corereset"}
        /\ trace[n - 1].op = "read"
        /\ trace[n - 1].reg = Mem("DEMCR")
        /\ trace[n - 1].value = RegAt(Mem("DEMCR"), n - 1).value
        /\ \A m \in ClearsDone :
               m < n => \A reg \in WrittenRegs : RegAt(reg, m) = RegAt(reg, n)

\* reset_catch_set armed the vector catch (DEMCR.VC_CORERESET) and
\* reset_catch_clear succeeded twice after it.
C33_Witness ==
    /\ ~Running
    /\ outcome = Ok
    /\ Cardinality(ClearsDone) = 2
    /\ \E n \in ClearsDone :
           /\ \A m \in ClearsDone : n <= m
           /\ "vc_corereset" \in RegAt(Mem("DEMCR"), n - 1).value

\* ================================================================ C34
\* commit is past its grouping loop: it runs one of its later phases, or has
\* returned having issued something.
PastGrouping == pc # "idle" \/ log # <<>>

\* C34: a commit that returns an algorithm-selection error or NoNvmCoreAccess
\* has constructed no Flasher and issued no erase, program or RAM write (nor
\* anything else); every Nvm region with data is grouped before anything is
\* done to the target, so that a commit that got past grouping has no region
\* grouping fails for; and when grouping fails for a region commit returns
\* the error of the first such region whatever its options, with dry_run as
\* without.
C34_GroupingErrorsBeforeAnyWrite ==
    /\ Returned /\ result.kind \in GroupingErrors =>
           /\ log = <<>>
           /\ Ungrouped # {}
    /\ PastGrouping => Ungrouped = {}
    /\ Returned /\ Ungrouped # {} =>
           /\ result = GroupingError
           /\ result.kind \in GroupingErrors
           /\ log = <<>>

\* A dry run returned the grouping error of a loader with data in an Nvm
\* region that has no single algorithm or no core.
C34_Witness ==
    /\ Returned
    /\ options.dry_run
    /\ result.kind \in GroupingErrors
    /\ result = GroupingError
    /\ log = <<>>

\* ================================================================ C35
\* C35 as stated: on any loader memory map and any target description commit
\* ends by returning success or a FlashError; it never aborts, neither in the
\* core lookups of the NVM and RAM loops nor in the lookups of verification.
C35_CommitNeverAborts == Returned => result # Panic

\* ================================================================ C36
\* Most regions of a memory map the walk is checked on.
MaxRegions == 2
\* Highest address of those maps and of the ranges walked.
WalkTop == 2

\* Regions of every kind over every range of the addresses, the empty ranges
\* included; the walk looks at no core.
WalkRegions ==
    {Region(kind, r[1], r[2], <<>>) :
        kind \in {"Nvm", "Ram", "Generic"},
        r \in {p \in (0 .. WalkTop) \X (0 .. WalkTop) : p[1] <= p[2]}}

\* Every memory map of up to MaxRegions regions: overlapping, adjacent,
\* apart, in any declaration order.
WalkMaps == SeqsUpTo(WalkRegions, MaxRegions)

WalkScenarios == {Scenario(m, Target(m, <<>>)) : m \in WalkMaps}

InitWalk == InitOf(WalkScenarios)

\* A call of check_data_in_memory_map(start..end) with its cursor at `address`.
CheckCall(start, end, address, res) ==
    [op |-> "check_data_in_memory_map", start |-> start, end |-> end,
     address |-> address, result |-> res]

\* check_data_in_memory_map is in its loop.
Walking == call # NoCall /\ call.result = No

\* `let mut address = range.start;`
CheckBegin ==
    \E start \in 0 .. WalkTop, end \in 0 .. WalkTop :
        /\ call = NoCall
        /\ pc = "idle"
        /\ call' = CheckCall(start, end, start, No)
        /\ UNCHANGED <<seqVars, selection, memory_map, target, data, mem, commitVars>>

\* One iteration of `while address < range.end`: the cursor moves to the end
\* of the Nvm or Ram region found for it, or the walk returns NoSuitableNvm.
CheckStep ==
    /\ Walking
    /\ call.address < call.end
    /\ LET i == get_region_for_address(memory_map, call.address)
       IN  IF i # 0 /\ memory_map[i].kind \in {"Nvm", "Ram"}
           THEN call' = [call EXCEPT !.address = memory_map[i].end]
           ELSE call' = [call EXCEPT !.result = NoSuitableNvm(call.start, call.end)]
    /\ UNCHANGED <<seqVars, selection, memory_map, target, data, mem, commitVars>>

\* The loop condition is false: `Ok(())`.
CheckReturn ==
    /\ Walking
    /\ ~(call.address < call.end)
    /\ call' = [call EXCEPT !.result = Ok]
    /\ UNCHANGED <<seqVars, selection, memory_map, target, data, mem, commitVars>>

NextWalk ==
    \/ CheckBegin
    \/ CheckStep
    \/ CheckReturn

\* The walk on every memory map and range of the bounds.
SpecWalk == InitWalk /\ [][NextWalk]_vars

\* The loop is straight-line code of one thread: an iteration that can run, runs.
SpecWalkFair == SpecWalk /\ WF_vars(CheckStep) /\ WF_vars(CheckReturn)

\* Region i is the first region, in declaration order, that contains the address.
FirstContaining(i, address) ==
    /\ i \in 1 .. Len(memory_map)
    /\ memory_map[i].start <= address
    /\ address < memory_map[i].end
    /\ \A j \in 1 .. (i - 1) :
           ~(memory_map[j].start <= address /\ address < memory_map[j].end)

\* What one step of a running walk does.
WalkStepIsProgress ==
    Walking /\ call' # call =>
        /\ call'.start = call.start /\ call'.end = call.end
        /\ IF call.address >= call.end
           THEN call'.result = Ok /\ call'.address = call.address
           ELSE \/ /\ call'.result = NoSuitableNvm(call.start, call.end)
                   /\ call'.address = call.address
                   /\ \A i \in 1 .. Len(memory_map) :
                          FirstContaining(i, call.address) => memory_map[i].kind = "Generic"
                \/ /\ call'.result = No
                   /\ call'.address > call.address
                   /\ \E i \in 1 .. Len(memory_map) :
                          /\ FirstContaining(i, call.address)
                          /\ memory_map[i].kind \in {"Nvm", "Ram"}
                          /\ call'.address = memory_map[i].end

\* A walk that ended returned what check_data_in_memory_map computes, and
\* success only with its cursor at or past range.end.
WalkEnded ==
    call # NoCall /\ call.result # No =>
        /\ call.result = check_data_in_memory_map(memory_map, call.start, call.end)
        /\ call.result \in {Ok, NoSuitableNvm(call.start, call.end)}
        /\ call.result = Ok => call.address >= call.end

\* C36: check_data_in_memory_map terminates on every memory map, overlapping
\* and adjacent regions included, and every range: an iteration either returns
\* NoSuitableNvm or moves the cursor strictly up, to the end of the first
\* region in declaration order that contains it, and the walk returns success
\* as soon as the cursor is at or past range.end.
C36_WalkTerminatesByStrictProgress ==
    /\ [][WalkStepIsProgress]_vars
    /\ []WalkEnded
    /\ Walking ~> ~Walking

\* A walk over two overlapping regions with different ends took more than
\* one iteration and returned success.
C36_Witness ==
    /\ call # NoCall
    /\ call.result = Ok
    /\ Len(memory_map) >= 2
    /\ FirstContaining(1, call.start)
    /\ memory_map[2].start <= call.start
    /\ call.start < memory_map[2].end
    /\ memory_map[2].end # memory_map[1].end
    /\ memory_map[1].end < call.end

====
